---- MODULE Spec2Model ----
(***************************************************************************)
(* A model of conda-dist: the lock validator, the environment preparation  *)
(* pipeline, the package cache and the installer image parser.             *)
(***************************************************************************)
EXTENDS Naturals, Integers, Sequences, FiniteSets, TLC

VARIABLES
    \* ---- validate_lockfile applied to drawn inputs ----
    val_records,        \* records: &[RepoDataRecord]
    val_specs,          \* specs: &[MatchSpec]
    val_targets,        \* targets: &[Platform]
    val_result,         \* <<>>, or <<the Result of validate_lockfile>>
    \* ---- execute_lock / prepare_environment ----
    lock_mode,          \* LockMode
    targets,   \* Vec<Platform>
    manifest_specs,     \* manifest dependencies as match specs
    featured,           \* featured package names of the manifest metadata
    ws_lock,            \* the file at the workspace lockfile path
    ws_lock_before,     \* that file as it was when the run started
    pc,                 \* position in prepare_environment / execute_lock
    existing_lock_records,
    lock_error,         \* Option<String>: <<>> or <<reason>>
    lock_reused,
    solve_index,        \* index of the next platform to solve
    combined,           \* the solve loop's deduplicated records
    solved_records,
    solver_calls,       \* invocations of solve_environment
    solve_log,          \* the platform and the pins of each invocation, and whether it succeeded
    staged,             \* (subdir, file_name) keys placed in the staged channel
    index_runs,         \* invocations of the repodata indexer
    bundle_lock,        \* the lockfile inside the staged channel
    ws_writes,          \* writes of the workspace lockfile
    staging_dir,        \* whether the staging directory exists
    error,              \* <<>> or <<kind, reason>> of the returned error
    message,            \* what execute_lock printed
    \* ---- the installer's load_bundle (conda-dist-install/src/bundle.rs) ----
    img_parts,          \* the launcher, metadata and payload the image was built from
    img_file,           \* the bytes of the running executable
    img_stage,          \* the last stage of the image parse that was reached
    img_history,        \* the stages reached, in the order they were reached
    img_error,          \* "none", or the message of the error load_bundle returned
    img_layout,         \* <<>>, or <<what read_embedded_layout computed>>
    img_pos,            \* the position of the file cursor
    img_temp_dir,       \* "none", "present" or "deleted": the TempDir of the bundle
    img_tree,           \* <<>>, or <<the top-level entries the payload unpacked to>>
    img_lockfile,       \* <<>>, or <<the lockfile read from the bundle root>>
    img_records,        \* the records collect_records returned
    img_metadata,       \* <<>>, or <<the BundleMetadata of the returned BundleData>>
    \* ---- download_and_stage_packages (downloader.rs), run after run ----
    cache_files,        \* the files under cache_dir: path -> bytes, or NoFile
    channel_files,      \* the files under channel_dir
    channel_dirs,       \* the subdirs of channel_dir that exist
    dl_run,             \* how many runs have started
    dl_pc,              \* position in download_and_stage_packages / stage_package
    dl_pending,         \* the entries of this run not yet staged
    dl_entry,           \* <<>>, or <<the entry stage_package is working on>>
    dl_cache_ready,     \* stage_package's cache_ready
    dl_downloaded,      \* stage_package's downloaded
    dl_fetched,         \* ctx.fetched
    dl_total,           \* total_packages
    dl_index_runs,      \* invocations of index_channel in this run
    dl_result,          \* <<>>, or <<the Result the run returned>>
    dl_log,             \* one entry per finished call of stage_package
    dl_lockfiles,       \* the lockfiles prepare_environment wrote after this run
    \* ---- stage_package tasks in flight at once (downloader.rs) ----
    tasks,              \* per task: its entry, its run, its position and its locals
    fs_names,           \* the directory entries: path -> the file there, or NoInode
    fs_data,             \* the bytes of each file
    \* ---- the write of the workspace lockfile (environment.rs:222-225) ----
    lw_pc,              \* position in the call of to_path
    lw_file,            \* the file at the workspace lockfile path
    lw_before,          \* that file as it was before the call
    lw_records,          \* the solved records the lockfile is built from
    \* ---- create_tar_gz_for_platform (installer.rs), run twice over one staged channel ----
    tar_root,           \* the staged channel: its top-level files and the files of its subdirs
    tar_platform,       \* the platform the archive is built for
    tar_post_install,   \* whether the metadata carries a post-install script
    tar_archives,        \* the archives built so far
    \* ---- PreparedBundleMetadata::from_config (installer.rs) applied to drawn inputs ----
    meta_env,           \* environment_name
    meta_config,        \* the BundleMetadataConfig: display_name, featured_packages, post_install_script
    meta_names,         \* the package names of the solved records
    meta_result,         \* <<>>, or <<the Result of from_config>>
    \* ---- detect_virtual_packages_for_platform ----
    vp_platform,        \* the platform solved for
    vp_overrides,       \* <<>> or <<the platform's override table>>
    vp_result           \* <<>> or <<the result of the detection>>

valVars == <<val_records, val_specs, val_targets, val_result>>

prepVars == <<lock_mode, targets, manifest_specs, featured, ws_lock, ws_lock_before, pc,
              existing_lock_records, lock_error, lock_reused, solve_index, combined,
              solved_records, solver_calls, solve_log, staged, index_runs, bundle_lock,
              ws_writes, staging_dir, error, message>>

imgVars == <<img_parts, img_file, img_stage, img_history, img_error, img_layout, img_pos,
             img_temp_dir, img_tree, img_lockfile, img_records, img_metadata>>

dlVars == <<cache_files, channel_files, channel_dirs, dl_run, dl_pc, dl_pending, dl_entry,
            dl_cache_ready, dl_downloaded, dl_fetched, dl_total, dl_index_runs, dl_result,
            dl_log, dl_lockfiles>>

taskVars == <<tasks, fs_names, fs_data>>

lwVars == <<lw_pc, lw_file, lw_before, lw_records>>

tarVars == <<tar_root, tar_platform, tar_post_install, tar_archives>>

metaVars == <<meta_env, meta_config, meta_names, meta_result>>

vpVars == <<vp_platform, vp_overrides, vp_result>>

vars == <<valVars, prepVars, imgVars, dlVars, taskVars, lwVars, tarVars, metaVars, vpVars>>

\* What the actions of one part of the program leave alone.
notPrepVars == <<valVars, imgVars, dlVars, taskVars, lwVars, tarVars, metaVars, vpVars>>
notValVars == <<prepVars, imgVars, dlVars, taskVars, lwVars, tarVars, metaVars, vpVars>>
notImgVars == <<valVars, prepVars, dlVars, taskVars, lwVars, tarVars, metaVars, vpVars>>
notDlVars == <<valVars, prepVars, imgVars, taskVars, lwVars, tarVars, metaVars, vpVars>>
notTaskVars == <<valVars, prepVars, imgVars, dlVars, lwVars, tarVars, metaVars, vpVars>>
notLwVars == <<valVars, prepVars, imgVars, dlVars, taskVars, tarVars, metaVars, vpVars>>
notTarVars == <<valVars, prepVars, imgVars, dlVars, taskVars, lwVars, metaVars, vpVars>>
notMetaVars == <<valVars, prepVars, imgVars, dlVars, taskVars, lwVars, tarVars, vpVars>>
notVpVars == <<valVars, prepVars, imgVars, dlVars, taskVars, lwVars, tarVars, metaVars>>

-----------------------------------------------------------------------------
(* Bounds of the model *)

\* Largest number of records in a drawn lockfile.
MaxLockRecords == 3

\* Longest drawn list of target platforms.
MaxTargets == 2

\* Longest launcher, metadata blob and payload of a drawn installer image.
MaxLauncherLen == 1
MaxMetadataLen == 3
MaxPayloadLen == 1

\* Most top-level entries of an unpacked payload.
MaxRootEntries == 2

\* Most runs of download_and_stage_packages over one cache, and the longest
\* record list of a run.
MaxRuns == 2
MaxRunRecords == 2

\* Most stage_package tasks in flight at once.
MaxTasks == 2

-----------------------------------------------------------------------------
(* Sequence helpers *)

Range(s) == {s[i] : i \in 1..Len(s)}

SeqsUpTo(S, n) == UNION {[1..k -> S] : k \in 0..n}

-----------------------------------------------------------------------------
(* Platforms, match specs and records *)

NoArch == "noarch"

KnownPlatforms == {"linux-64", "osx-64", NoArch}

\* A MatchSpec as the validator reads it: a parsed spec has an optional name
\* and a version constraint (0: any version); a dependency string may also
\* fail the lenient parse, and a name starting with "__" is a virtual package.
Dep(n, v) == [kind |-> "spec", name |-> n, ver |-> v]
Nameless == [kind |-> "nameless", name |-> "", ver |-> 0]
Malformed == [kind |-> "malformed", name |-> "", ver |-> 0]

VirtualNames == {"__glibc"}

Rec(n, v, sd, deps) ==
    [name |-> n, version |-> v, subdir |-> sd, file_name |-> <<n, v>>, depends |-> deps]

\* The records the drawn lockfiles and solver results are made of.
UniverseSeq ==
    << Rec("a", 1, "linux-64", <<Dep("b", 0)>>),
       Rec("a", 2, "linux-64", <<Dep("__glibc", 0), Dep("b", 2)>>),
       Rec("b", 1, NoArch, <<>>),
       Rec("b", 2, NoArch, <<Dep("c", 0)>>),
       Rec("c", 1, "linux-64", <<>>),
       Rec("a", 1, "osx-64", <<Dep("b", 0)>>),
       Rec("b", 1, "linux-64", <<>>),
       Rec("c", 1, NoArch, <<Malformed>>) >>

Universe == Range(UniverseSeq)

\* The records of a set, in the order of UniverseSeq.
SetToSeq(S) == SelectSeq(UniverseSeq, LAMBDA r : r \in S)

LockRecordSets == {S \in SUBSET Universe : Cardinality(S) <= MaxLockRecords}

\* The manifest's dependency lists.
SpecLists ==
    { <<Dep("a", 0)>>, <<Dep("a", 2)>>, <<Dep("a", 0), Dep("c", 0)>>, <<Dep("c", 0)>>,
      <<Dep("b", 0)>> }

TargetLists == SeqsUpTo(KnownPlatforms, MaxTargets) \ {<<>>}

-----------------------------------------------------------------------------
(* The lock validator (app/environment.rs) *)

\* MatchSpec::matches on a package record.
Matches(spec, record) ==
    /\ spec.kind = "spec"
    /\ spec.name = record.name
    /\ (spec.ver = 0 \/ spec.ver = record.version)

lock_key(record) == <<record.subdir, record.name>>

Ok(v) == [ok |-> TRUE, reason |-> <<>>, value |-> v]
Err(r) == [ok |-> FALSE, reason |-> r, value |-> {}]

\* The records of `records`, in order, whose subdir is `platform`.
BySubdir(records, platform) == SelectSeq(records, LAMBDA r : r.subdir = platform)

\* The first index whose record repeats the name of an earlier one, or 0.
FirstDuplicate(records) ==
    LET dups == {j \in 1..Len(records) : \E i \in 1..(j - 1) : records[i].name = records[j].name}
    IN  IF dups = {} THEN 0 ELSE CHOOSE j \in dups : \A k \in dups : j <= k

\* by_name.get(name): the last insert wins, and there is none twice once
\* FirstDuplicate is 0.
ByName(records, name) ==
    LET hits == {i \in 1..Len(records) : records[i].name = name}
    IN  IF hits = {} THEN <<>> ELSE <<records[CHOOSE i \in hits : \A k \in hits : k <= i]>>

\* The loop over the manifest specs: the queue of seeded names, or the first error.
RECURSIVE SeedQueue(_, _, _, _, _)
SeedQueue(platform, records, specs, i, queue) ==
    IF i > Len(specs) THEN Ok(queue)
    ELSE LET spec == specs[i] IN
         IF spec.kind # "spec" THEN Err(<<"spec has no name", i>>)
         ELSE LET found == ByName(records, spec.name) IN
              IF found = <<>> THEN Err(<<"missing package", spec.name, platform>>)
              ELSE IF ~Matches(spec, found[1])
                   THEN Err(<<"unsatisfied requirement", spec.name, platform>>)
                   ELSE SeedQueue(platform, records, specs, i + 1, Append(queue, spec.name))

\* The loop over one record's dependency strings: the names to enqueue, or the
\* first error.
RECURSIVE ScanDepends(_, _, _, _, _)
ScanDepends(platform, records, record, i, pushed) ==
    IF i > Len(record.depends) THEN Ok(pushed)
    ELSE LET dependency == record.depends[i] IN
         IF dependency.kind = "spec" /\ dependency.name \in VirtualNames
         THEN ScanDepends(platform, records, record, i + 1, pushed)
         ELSE IF dependency.kind = "malformed"
         THEN Err(<<"unparseable dependency", record.name>>)
         ELSE IF dependency.kind = "nameless"
         THEN Err(<<"dependency without name", record.name>>)
         ELSE LET found == ByName(records, dependency.name) IN
              IF found = <<>>
              THEN Err(<<"missing dependency", dependency.name, record.name, platform>>)
              ELSE IF ~Matches(dependency, found[1])
                   THEN Err(<<"unsatisfied dependency", dependency.name, record.name, platform>>)
                   ELSE ScanDepends(platform, records, record, i + 1,
                                    Append(pushed, dependency.name))

\* The breadth-first walk of the queue: the visited keys, or the first error.
RECURSIVE WalkQueue(_, _, _, _)
WalkQueue(platform, records, queue, visited_keys) ==
    IF queue = <<>> THEN Ok(visited_keys)
    ELSE LET name == Head(queue)
             found == ByName(records, name)
         IN  IF found = <<>> THEN Err(<<"missing package in walk", name, platform>>)
             ELSE LET record == found[1]
                      key == lock_key(record)
                  IN  IF key \in visited_keys
                      THEN WalkQueue(platform, records, Tail(queue), visited_keys)
                      ELSE LET scan == ScanDepends(platform, records, record, 1, <<>>) IN
                           IF ~scan.ok THEN scan
                           ELSE WalkQueue(platform, records, Tail(queue) \o scan.value,
                                          visited_keys \cup {key})

\* A mutant of validate_platform_lock: the walk stops at the manifest's own
\* packages and never follows their dependencies.
validate_platform_lock_no_walk(platform, records, specs) ==
    IF records = <<>> THEN Err(<<"no packages for platform", platform>>)
    ELSE IF FirstDuplicate(records) # 0
    THEN Err(<<"multiple entries", records[FirstDuplicate(records)].name, platform>>)
    ELSE LET seed == SeedQueue(platform, records, specs, 1, <<>>) IN
         IF ~seed.ok THEN seed
         ELSE Ok({lock_key(ByName(records, seed.value[i])[1]) : i \in 1..Len(seed.value)}
                 \cup {lock_key(records[i]) : i \in 1..Len(records)})

validate_platform_lock(platform, records, specs) ==
    IF records = <<>> THEN Err(<<"no packages for platform", platform>>)
    ELSE IF FirstDuplicate(records) # 0
    THEN Err(<<"multiple entries", records[FirstDuplicate(records)].name, platform>>)
    ELSE LET seed == SeedQueue(platform, records, specs, 1, <<>>) IN
         IF ~seed.ok THEN seed
         ELSE WalkQueue(platform, records, seed.value, {})

\* The loop over the target platforms: the covered keys, or the first error.
RECURSIVE CoverPlatforms(_, _, _, _, _)
CoverPlatforms(records, specs, target_platforms, i, covered_keys) ==
    IF i > Len(target_platforms) THEN Ok(covered_keys)
    ELSE LET platform == target_platforms[i]
             records_for_platform == BySubdir(records, platform) \o BySubdir(records, NoArch)
             visited == validate_platform_lock(platform, records_for_platform, specs)
         IN  IF ~visited.ok THEN visited
             ELSE CoverPlatforms(records, specs, target_platforms, i + 1,
                                 covered_keys \cup visited.value)

\* A mutant of validate_lockfile: the comparison of the covered keys with all
\* keys is left out.
validate_lockfile_no_extras_check(records, specs, target_platforms) ==
    IF \E i \in 1..Len(records) : records[i].subdir \notin KnownPlatforms
    THEN Err(<<"unrecognised subdir">>)
    ELSE LET covered == CoverPlatforms(records, specs, target_platforms, 1, {}) IN
         IF ~covered.ok THEN covered ELSE Ok({})

validate_lockfile(records, specs, target_platforms) ==
    IF \E i \in 1..Len(records) : records[i].subdir \notin KnownPlatforms
    THEN Err(<<"unrecognised subdir">>)
    ELSE LET all_keys == {lock_key(records[i]) : i \in 1..Len(records)}
             covered == CoverPlatforms(records, specs, target_platforms, 1, {})
         IN  IF ~covered.ok THEN covered
             ELSE IF covered.value # all_keys
                  THEN Err(<<"unrelated packages", all_keys \ covered.value>>)
                  ELSE Ok({})

-----------------------------------------------------------------------------
(* Reachability in a lockfile, stated on sets and without the validator's walk *)

IsVirtual(dependency) == dependency.kind = "spec" /\ dependency.name \in VirtualNames

\* R[p] \cup R[noarch]
PlatformRecords(R, p) == {R[i] : i \in {j \in 1..Len(R) : R[j].subdir \in {p, NoArch}}}

RECURSIVE DependencyClosure(_, _)
DependencyClosure(pool, reached) ==
    LET more == {r \in pool : \E q \in reached : \E i \in 1..Len(q.depends) :
                     ~IsVirtual(q.depends[i]) /\ Matches(q.depends[i], r)}
    IN  IF more \subseteq reached THEN reached ELSE DependencyClosure(pool, reached \cup more)

\* The records of R[p] \cup R[noarch] reachable from a manifest spec.
Reachable(R, S, p) ==
    DependencyClosure(PlatformRecords(R, p),
                      {r \in PlatformRecords(R, p) : \E i \in 1..Len(S) : Matches(S[i], r)})

ValidatorAccepted == val_result # <<>> /\ val_result[1].ok

-----------------------------------------------------------------------------
(* The lockfile store (conda/lockfile.rs) *)

\* A lockfile on disk: missing, unparseable, or an environment's records
\* grouped by platform.
MissingFile == [state |-> "missing", records |-> {}]
UnparseableFile == [state |-> "unparseable", records |-> {}]
LockFile(S) == [state |-> "present", records |-> S]

augment_with_noarch(platforms) ==
    IF \E i \in 1..Len(platforms) : platforms[i] = NoArch
    THEN platforms
    ELSE Append(platforms, NoArch)

\* The loop of load_locked_packages: the records of each platform in turn.
RECURSIVE LoadPlatforms(_, _, _)
LoadPlatforms(file, platforms, i) ==
    IF i > Len(platforms) THEN <<>>
    ELSE SetToSeq({r \in file.records : r.subdir = platforms[i]})
         \o LoadPlatforms(file, platforms, i + 1)

load_locked_packages(file, platforms) == LoadPlatforms(file, platforms, 1)

\* A mutant of the call of load_locked_packages at environment.rs:77-79: the
\* platform list is passed without noarch.
LoadExistingLock_without_noarch(file, platforms) == load_locked_packages(file, platforms)

\* environment.rs:77-79: the records of the target platforms and of noarch.
LoadExistingLock(file, platforms) == load_locked_packages(file, augment_with_noarch(platforms))

\* build_lockfile: every record is added under the platform of its subdir.
build_lockfile(records) == LockFile(Range(records))

\* lockfile.rs:51-60: a record is added under the platform its subdir names,
\* so the platform entries of a built lockfile are the subdirs of its records.
conda_packages_by_platform(file) ==
    [platform \in {r.subdir : r \in file.records} |->
        {r \in file.records : r.subdir = platform}]

\* conda-dist-install bundle.rs:245-250 and 294-299: collect_records fails
\* unless the target platform is among the lockfile's platform entries.
LockHasPlatform(file, target_platform) ==
    target_platform \in DOMAIN conda_packages_by_platform(file)

-----------------------------------------------------------------------------
(* The solver (conda/solver.rs), by its interface: a failure, or a set of   *)
(* records of the platform and of noarch that satisfies the specs.          *)

IsSolution(X, S) ==
    /\ X # {}
    /\ \A r1, r2 \in X : r1.name = r2.name => r1 = r2
    /\ \A i \in 1..Len(S) : \E r \in X : Matches(S[i], r)
    /\ \A q \in X : \A i \in 1..Len(q.depends) :
           ~IsVirtual(q.depends[i]) => \E r \in X : Matches(q.depends[i], r)
    /\ DependencyClosure(X, {r \in X : \E i \in 1..Len(S) : Matches(S[i], r)}) = X

solve_environment(platform, S) ==
    {SetToSeq(X) : X \in {Y \in SUBSET {r \in Universe : r.subdir \in {platform, NoArch}} :
                              IsSolution(Y, S)}}

\* The loop at environment.rs:160-168: append the records whose key is new.
\* A mutant of ExtendDeduplicated: every record of the platform's result is
\* pushed, seen or not.
ExtendDeduplicated_pushes_all(list, records, i) == list \o records

RECURSIVE ExtendDeduplicated(_, _, _)
ExtendDeduplicated(list, records, i) ==
    IF i > Len(records) THEN list
    ELSE LET key == <<records[i].subdir, records[i].file_name>>
             seen == {<<list[j].subdir, list[j].file_name>> : j \in 1..Len(list)}
         IN  ExtendDeduplicated(IF key \in seen THEN list ELSE Append(list, records[i]),
                                records, i + 1)

-----------------------------------------------------------------------------
(* execute_lock and prepare_environment (app/environment.rs) *)

LockModes == {"Auto", "Unlock", "Locked"}

\* Lists of distinct target platforms.
PrepTargetLists == {t \in TargetLists : \A i, j \in 1..Len(t) : i # j => t[i] # t[j]}

FeaturedLists == {<<>>, <<"c">>}

LockFiles == {MissingFile, UnparseableFile} \cup {LockFile(S) : S \in LockRecordSets}

PrepInit ==
    /\ lock_mode \in LockModes
    /\ targets \in PrepTargetLists
    /\ manifest_specs \in SpecLists \cup {<<>>}
    /\ featured \in FeaturedLists
    /\ ws_lock \in LockFiles
    /\ ws_lock_before = ws_lock
    /\ pc = "start"
    /\ existing_lock_records = <<>>
    /\ lock_error = <<>>
    /\ lock_reused = FALSE
    /\ solve_index = 1
    /\ combined = <<>>
    /\ solved_records = <<>>
    /\ solver_calls = 0
    /\ solve_log = <<>>
    /\ staged = {}
    /\ index_runs = 0
    /\ bundle_lock = MissingFile
    /\ ws_writes = 0
    /\ staging_dir = FALSE
    /\ error = <<>>
    /\ message = ""

\* A mutant of Fail: the error is returned with the staging directory left
\* in place.
Fail_keeps_staging_dir(kind, reason) ==
    /\ pc' = "failed"
    /\ error' = <<kind, reason>>
    /\ UNCHANGED staging_dir

\* An early return with an error: the staging TempDir is dropped.
Fail(kind, reason) ==
    /\ pc' = "failed"
    /\ error' = <<kind, reason>>
    /\ staging_dir' = FALSE

\* A mutant of LoadLock: under Unlock the existing lockfile is not read.
LoadLock_unlock_skips_load ==
    /\ pc = "start"
    /\ UNCHANGED notPrepVars
    /\ IF manifest_specs = <<>>
       THEN /\ Fail("NoDependencies", <<>>)
            /\ UNCHANGED existing_lock_records
       ELSE IF ws_lock.state = "unparseable" /\ lock_mode # "Unlock"
       THEN /\ Fail("LockUnreadable", <<>>)
            /\ UNCHANGED existing_lock_records
       ELSE /\ existing_lock_records' =
                   IF ws_lock.state = "present"
                   THEN LoadExistingLock(ws_lock, targets)
                   ELSE <<>>
            /\ staging_dir' = TRUE
            /\ pc' = "decide"
            /\ UNCHANGED error
    /\ UNCHANGED <<lock_mode, targets, manifest_specs, featured, ws_lock, ws_lock_before,
                   lock_error, lock_reused, solve_index, combined, solved_records,
                   solver_calls, solve_log, staged, index_runs, bundle_lock, ws_writes, message>>

\* environment.rs:42-82: staging directory, manifest manifest_specs, existing lock.
LoadLock ==
    /\ pc = "start"
    /\ UNCHANGED notPrepVars
    /\ IF manifest_specs = <<>>
       THEN /\ Fail("NoDependencies", <<>>)
            /\ UNCHANGED existing_lock_records
       ELSE IF ws_lock.state = "unparseable"
       THEN /\ Fail("LockUnreadable", <<>>)
            /\ UNCHANGED existing_lock_records
       ELSE /\ existing_lock_records' =
                   IF ws_lock.state = "present"
                   THEN LoadExistingLock(ws_lock, targets)
                   ELSE <<>>
            /\ staging_dir' = TRUE
            /\ pc' = "decide"
            /\ UNCHANGED error
    /\ UNCHANGED <<lock_mode, targets, manifest_specs, featured, ws_lock, ws_lock_before,
                   lock_error, lock_reused, solve_index, combined, solved_records,
                   solver_calls, solve_log, staged, index_runs, bundle_lock, ws_writes, message>>

\* environment.rs:89-94: the validator's verdict as lock_error.
LockError(validation) == IF validation.ok THEN <<>> ELSE <<validation.reason>>

\* A mutant of DecideFrom: a stale lockfile under --locked is not refused, and
\* the pipeline goes on to resolve.
DecideFrom_locked_stale_resolves(mode, lockfile_exists, err) ==
    IF mode = "Locked" /\ ~lockfile_exists
    THEN [bail |-> <<"LockMissing", <<>>>>, lock_error |-> err, lock_reused |-> FALSE]
    ELSE [bail |-> <<>>, lock_error |-> err,
          lock_reused |-> lockfile_exists /\ err = <<>> /\ mode # "Unlock"]

\* A mutant of DecideFrom: lock_reused forgets the lock mode, so --unlock
\* reuses an existing lockfile.
DecideFrom_unlock_reuses(mode, lockfile_exists, err) ==
    IF mode # "Unlock" /\ ~lockfile_exists /\ mode = "Locked"
    THEN [bail |-> <<"LockMissing", <<>>>>, lock_error |-> err, lock_reused |-> FALSE]
    ELSE IF mode = "Locked" /\ err # <<>>
    THEN [bail |-> <<"LockStale", err[1]>>, lock_error |-> err, lock_reused |-> FALSE]
    ELSE [bail |-> <<>>, lock_error |-> err, lock_reused |-> lockfile_exists /\ err = <<>>]

\* environment.rs:95-108: the two bail! of --locked, and lock_reused.
DecideFrom(mode, lockfile_exists, err) ==
    IF mode # "Unlock" /\ ~lockfile_exists /\ mode = "Locked"
    THEN [bail |-> <<"LockMissing", <<>>>>, lock_error |-> err, lock_reused |-> FALSE]
    ELSE IF mode = "Locked" /\ err # <<>>
    THEN [bail |-> <<"LockStale", err[1]>>, lock_error |-> err, lock_reused |-> FALSE]
    ELSE [bail |-> <<>>, lock_error |-> err,
          lock_reused |-> lockfile_exists /\ err = <<>> /\ mode # "Unlock"]

\* environment.rs:84-108: the validator runs unless the mode is Unlock or the
\* lockfile is missing.
LockDecision(mode, lockfile_exists, records, S, platforms) ==
    DecideFrom(mode, lockfile_exists,
               IF mode # "Unlock" /\ lockfile_exists
               THEN LockError(validate_lockfile(records, S, platforms))
               ELSE <<>>)

DecideLock ==
    /\ pc = "decide"
    /\ UNCHANGED notPrepVars
    /\ \E d \in {LockDecision(lock_mode, ws_lock.state # "missing", existing_lock_records,
                              manifest_specs, targets)} :
           /\ lock_error' = d.lock_error
           /\ lock_reused' = d.lock_reused
           /\ IF d.bail # <<>>
              THEN Fail(d.bail[1], d.bail[2])
              ELSE /\ pc' = "resolve"
                   /\ UNCHANGED <<error, staging_dir>>
    /\ UNCHANGED <<lock_mode, targets, manifest_specs, featured, ws_lock, ws_lock_before,
                   existing_lock_records, solve_index, combined, solved_records,
                   solver_calls, solve_log, staged, index_runs, bundle_lock, ws_writes, message>>

\* environment.rs:112-113: the locked records are the solved records.
ReuseLock ==
    /\ pc = "resolve"
    /\ UNCHANGED notPrepVars
    /\ lock_reused
    /\ solved_records' = existing_lock_records
    /\ pc' = "metadata"
    /\ UNCHANGED <<lock_mode, targets, manifest_specs, featured, ws_lock, ws_lock_before,
                   existing_lock_records, lock_error, lock_reused, solve_index, combined,
                   solver_calls, solve_log, staged, index_runs, bundle_lock, ws_writes, staging_dir,
                   error, message>>

\* A mutant of locked_for_platform: the noarch records of the lockfile are
\* not among the pins.
locked_for_platform_without_noarch(records, platform) == BySubdir(records, platform)

\* environment.rs:115 and 130-138: the locked records of the platform's
\* subdir followed by those of noarch.
locked_for_platform(records, platform) ==
    BySubdir(records, platform) \o BySubdir(records, NoArch)

\* One invocation of solve_environment (144-158): the platform, the locked
\* records handed over and whether a solution came back.
SolveCall(platform, locked, ok) == [platform |-> platform, locked |-> locked, ok |-> ok]

\* environment.rs:128-171: one iteration of the solve loop, run to its end
\* before the next begins; after the last platform the combined list is the
\* solved list (173-178). The solver prefers the locked records and is free
\* to leave them, so its result is any solution.
SolvePlatform ==
    /\ pc = "resolve"
    /\ UNCHANGED notPrepVars
    /\ ~lock_reused
    /\ solve_index <= Len(targets)
    /\ solver_calls' = solver_calls + 1
    /\ \/ /\ Fail("SolveFailed", targets[solve_index])
          /\ solve_log' = Append(solve_log, SolveCall(targets[solve_index],
                                   locked_for_platform(existing_lock_records,
                                                       targets[solve_index]), FALSE))
          /\ UNCHANGED <<solve_index, combined, solved_records>>
       \/ \E records \in solve_environment(targets[solve_index], manifest_specs) :
          \E list \in {ExtendDeduplicated(combined, records, 1)} :
              /\ solve_log' = Append(solve_log, SolveCall(targets[solve_index],
                                       locked_for_platform(existing_lock_records,
                                                           targets[solve_index]), TRUE))
              /\ combined' = list
              /\ solve_index' = solve_index + 1
              /\ IF solve_index = Len(targets)
                 THEN /\ solved_records' = list
                      /\ pc' = "metadata"
                 ELSE UNCHANGED <<solved_records, pc>>
              /\ UNCHANGED <<error, staging_dir>>
    /\ UNCHANGED <<lock_mode, targets, manifest_specs, featured, ws_lock, ws_lock_before,
                   existing_lock_records, lock_error, lock_reused, staged, index_runs,
                   bundle_lock, ws_writes, message>>

\* A mutant of DeriveMetadata: the featured packages are not looked up in the
\* solved records.
DeriveMetadata_without_lookup ==
    /\ pc = "metadata"
    /\ UNCHANGED notPrepVars
    /\ pc' = "download"
    /\ UNCHANGED <<error, staging_dir>>
    /\ UNCHANGED <<lock_mode, targets, manifest_specs, featured, ws_lock, ws_lock_before,
                   existing_lock_records, lock_error, lock_reused, solve_index, combined,
                   solved_records, solver_calls, solve_log, staged, index_runs, bundle_lock,
                   ws_writes, message>>

\* environment.rs:180-186 and installer.rs:80-107: every featured package
\* must be the name of a solved record.
DeriveMetadata ==
    /\ pc = "metadata"
    /\ UNCHANGED notPrepVars
    /\ IF \E i \in 1..Len(featured) :
              \A j \in 1..Len(solved_records) : solved_records[j].name # featured[i]
       THEN Fail("MetadataInvalid", featured)
       ELSE /\ pc' = "download"
            /\ UNCHANGED <<error, staging_dir>>
    /\ UNCHANGED <<lock_mode, targets, manifest_specs, featured, ws_lock, ws_lock_before,
                   existing_lock_records, lock_error, lock_reused, solve_index, combined,
                   solved_records, solver_calls, solve_log, staged, index_runs, bundle_lock,
                   ws_writes, message>>

\* environment.rs:188-220: download_and_stage_packages succeeds, staging and
\* indexing every record, or returns the error of a fetch.
DownloadAndStage ==
    /\ pc = "download"
    /\ UNCHANGED notPrepVars
    /\ \/ /\ Fail("FetchFailed", <<>>)
          /\ UNCHANGED <<staged, index_runs>>
       \/ /\ staged' = {<<solved_records[i].subdir, solved_records[i].file_name>> :
                            i \in 1..Len(solved_records)}
          /\ index_runs' = index_runs + 1
          /\ pc' = "write_ws"
          /\ UNCHANGED <<error, staging_dir>>
    /\ UNCHANGED <<lock_mode, targets, manifest_specs, featured, ws_lock, ws_lock_before,
                   existing_lock_records, lock_error, lock_reused, solve_index, combined,
                   solved_records, solver_calls, solve_log, bundle_lock, ws_writes, message>>

\* A mutant of WriteWorkspaceLock: the records of the run are merged into the
\* records the file already holds.
WriteWorkspaceLock_keeps_other_platforms ==
    /\ pc = "write_ws"
    /\ UNCHANGED notPrepVars
    /\ ws_lock' = LockFile(ws_lock.records \cup Range(solved_records))
    /\ ws_writes' = ws_writes + 1
    /\ pc' = "write_bundle"
    /\ UNCHANGED <<lock_mode, targets, manifest_specs, featured, ws_lock_before,
                   existing_lock_records, lock_error, lock_reused, solve_index, combined,
                   solved_records, solver_calls, solve_log, staged, index_runs, bundle_lock,
                   staging_dir, error, message>>

\* A mutant of WriteWorkspaceLock: the workspace lockfile is written in the
\* place of the download, before any package is staged.
WriteWorkspaceLock_before_staging ==
    /\ pc = "download"
    /\ UNCHANGED notPrepVars
    /\ ws_lock' = build_lockfile(solved_records)
    /\ ws_writes' = ws_writes + 1
    /\ pc' = "write_bundle"
    /\ UNCHANGED <<lock_mode, targets, manifest_specs, featured, ws_lock_before,
                   existing_lock_records, lock_error, lock_reused, solve_index, combined,
                   solved_records, solver_calls, solve_log, staged, index_runs, bundle_lock,
                   staging_dir, error, message>>

\* environment.rs:222-225: the workspace lockfile is built from the solved
\* records and written; when to_path fails the error is returned, with the
\* file as it was (it could not be created) or cut short (it was created and
\* the write failed).
WriteWorkspaceLock ==
    /\ pc = "write_ws"
    /\ UNCHANGED notPrepVars
    /\ \/ /\ ws_lock' = build_lockfile(solved_records)
          /\ ws_writes' = ws_writes + 1
          /\ pc' = "write_bundle"
          /\ UNCHANGED <<staging_dir, error>>
       \/ /\ Fail("LockWriteFailed", "workspace")
          /\ ws_lock' \in {ws_lock, UnparseableFile}
          /\ UNCHANGED ws_writes
    /\ UNCHANGED <<lock_mode, targets, manifest_specs, featured, ws_lock_before,
                   existing_lock_records, lock_error, lock_reused, solve_index, combined,
                   solved_records, solver_calls, solve_log, staged, index_runs, bundle_lock,
                   message>>

\* environment.rs:227-240: the same lockfile is written into the staged
\* channel and the preparation is returned; when to_path fails the error is
\* returned and the staged channel goes with the staging directory.
WriteBundleLock ==
    /\ pc = "write_bundle"
    /\ UNCHANGED notPrepVars
    /\ \/ /\ bundle_lock' = build_lockfile(solved_records)
          /\ pc' = "returned"
          /\ UNCHANGED <<staging_dir, error>>
       \/ /\ Fail("LockWriteFailed", "bundle")
          /\ UNCHANGED bundle_lock
    /\ UNCHANGED <<lock_mode, targets, manifest_specs, featured, ws_lock, ws_lock_before,
                   existing_lock_records, lock_error, lock_reused, solve_index, combined,
                   solved_records, solver_calls, solve_log, staged, index_runs, ws_writes,
                   message>>

\* environment.rs:265-280: execute_lock drops the preparation and reports.
ReportLock ==
    /\ pc = "returned"
    /\ UNCHANGED notPrepVars
    /\ staging_dir' = FALSE
    /\ message' = IF lock_reused THEN "already up to date" ELSE "written"
    /\ pc' = "done"
    /\ UNCHANGED <<lock_mode, targets, manifest_specs, featured, ws_lock, ws_lock_before,
                   existing_lock_records, lock_error, lock_reused, solve_index, combined,
                   solved_records, solver_calls, solve_log, staged, index_runs, bundle_lock,
                   ws_writes, error>>

PrepNext ==
    \/ LoadLock
    \/ DecideLock
    \/ ReuseLock
    \/ SolvePlatform
    \/ DeriveMetadata
    \/ DownloadAndStage
    \/ WriteWorkspaceLock
    \/ WriteBundleLock
    \/ ReportLock

-----------------------------------------------------------------------------
(* validate_lockfile applied to every drawn (R, S, T) *)

ValInit ==
    /\ val_records \in {SetToSeq(S) : S \in LockRecordSets}
    /\ val_specs \in SpecLists
    /\ val_targets \in TargetLists
    /\ val_result = <<>>

\* The validator's variables while another part of the program runs.
ValIdle ==
    /\ val_records = <<>>
    /\ val_specs = <<>>
    /\ val_targets = <<>>
    /\ val_result = <<>>

RunValidator ==
    /\ val_result = <<>>
    /\ UNCHANGED notValVars
    /\ val_result' = <<validate_lockfile(val_records, val_specs, val_targets)>>
    /\ UNCHANGED <<val_records, val_specs, val_targets>>

\* The pipeline's variables while another part of the program runs.
PrepIdle ==
    /\ lock_mode = "Auto"
    /\ targets = <<>>
    /\ manifest_specs = <<>>
    /\ featured = <<>>
    /\ ws_lock = MissingFile
    /\ ws_lock_before = MissingFile
    /\ pc = "idle"
    /\ existing_lock_records = <<>>
    /\ lock_error = <<>>
    /\ lock_reused = FALSE
    /\ solve_index = 1
    /\ combined = <<>>
    /\ solved_records = <<>>
    /\ solver_calls = 0
    /\ solve_log = <<>>
    /\ staged = {}
    /\ index_runs = 0
    /\ bundle_lock = MissingFile
    /\ ws_writes = 0
    /\ staging_dir = FALSE
    /\ error = <<>>
    /\ message = ""

-----------------------------------------------------------------------------
(* The installer image (conda-dist-install/src/bundle.rs)                  *)
(*                                                                         *)
(* A file is the sequence of its bytes; offsets are counted from 0 as the  *)
(* code counts them, so the byte at offset k is file[k + 1].               *)

MAGIC_BYTES == <<67, 79, 78, 68, 65, 68, 73, 83, 84, 33>>      \* b"CONDADIST!"

LENGTH_FIELD_SIZE == 8

\* Every u64 of 2^24 or more is read as this one value: no drawn file is
\* that long, so all of them compare alike with every offset of the file.
U64Huge == 256 * 256 * 256

\* u64::from_le_bytes
from_le_bytes(buf) ==
    IF \E i \in 4..Len(buf) : buf[i] # 0 THEN U64Huge
    ELSE buf[1] + 256 * buf[2] + 65536 * buf[3]

\* n as an unsigned 64-bit little-endian field, for n below 2^24.
u64_le(n) ==
    [i \in 1..LENGTH_FIELD_SIZE |->
        IF i = 1 THEN n % 256
        ELSE IF i = 2 THEN (n \div 256) % 256
        ELSE IF i = 3 THEN (n \div 65536) % 256
        ELSE 0]

\* The image the installer assembler writes for a launcher, a metadata blob
\* and a payload.
Assemble(launcher, metadata, payload) ==
    launcher \o metadata \o u64_le(Len(metadata))
             \o payload \o u64_le(Len(payload)) \o MAGIC_BYTES

\* seek(SeekFrom::Start(pos)) followed by read_exact of n bytes.
ReadAt(file, pos, n) == SubSeq(file, pos + 1, pos + n)

\* serde_json::from_slice::<LauncherMetadata>, by its interface: the bytes
\* parse when they are a JSON object, here a blob that opens with '{' and
\* closes with '}', and the summary is what the braces enclose.
serde_json_from_slice(bytes) ==
    IF Len(bytes) >= 2 /\ bytes[1] = 123 /\ bytes[Len(bytes)] = 125
    THEN <<[summary |-> SubSeq(bytes, 2, Len(bytes) - 1)]>>
    ELSE <<>>

\* The locals of read_embedded_layout.
minimum_size == Len(MAGIC_BYTES) + LENGTH_FIELD_SIZE * 2
magic_start(file) == Len(file) - Len(MAGIC_BYTES)
marker(file) == ReadAt(file, magic_start(file), Len(MAGIC_BYTES))
payload_len_pos(file) == magic_start(file) - LENGTH_FIELD_SIZE
payload_len(file) == from_le_bytes(ReadAt(file, payload_len_pos(file), LENGTH_FIELD_SIZE))
payload_start_past_footer(file) == magic_start(file) - payload_len(file)
payload_start(file) == payload_len_pos(file) - payload_len(file)
metadata_len_pos(file) == payload_start(file) - LENGTH_FIELD_SIZE
metadata_len(file) == from_le_bytes(ReadAt(file, metadata_len_pos(file), LENGTH_FIELD_SIZE))
metadata_start(file) == metadata_len_pos(file) - metadata_len(file)
metadata_bytes(file) == ReadAt(file, metadata_start(file), metadata_len(file))

\* The stages of load_bundle, in the order the code passes them.
StageOrder ==
    <<"Opened", "MagicOK", "PayloadLenOK", "PayloadBounded", "MetaLenOK", "MetaBounded",
      "MetaParsed", "PayloadExtracted", "BundleRootResolved", "LockfileRead",
      "RecordsPrepared", "Ready">>

StageIndex(stage) == CHOOSE i \in 1..Len(StageOrder) : StageOrder[i] = stage

NextStage(stage) == StageOrder[StageIndex(stage) + 1]

\* The stages that read_embedded_layout leaves by a check of the trailer.
TrailerStages ==
    {"Opened", "MagicOK", "PayloadLenOK", "PayloadBounded", "MetaLenOK", "MetaBounded"}

\* The check that leaves `stage`: "none" when it passes, else the message of
\* the error read_embedded_layout returns.
TrailerCheck_accepts_empty(stage, file) ==
    CASE stage = "Opened" ->
            IF Len(file) < minimum_size
            THEN "installer payload is missing or corrupt"
            ELSE IF marker(file) # MAGIC_BYTES
            THEN "installer payload marker mismatch; the installer may be corrupted"
            ELSE "none"
      [] stage = "MagicOK" -> "none"
      [] stage = "PayloadLenOK" ->
            IF payload_len(file) > payload_len_pos(file)
            THEN "installer payload length exceeds executable size"
            ELSE "none"
      [] stage = "PayloadBounded" ->
            IF payload_start(file) < LENGTH_FIELD_SIZE
            THEN "installer metadata footer is missing"
            ELSE "none"
      [] stage = "MetaLenOK" ->
            IF metadata_len(file) > metadata_len_pos(file)
            THEN "installer metadata length exceeds executable size"
            ELSE "none"
      [] stage = "MetaBounded" ->
            IF serde_json_from_slice(metadata_bytes(file)) = <<>>
            THEN "failed to parse installer metadata"
            ELSE "none"
TrailerCheck(stage, file) ==
    CASE stage = "Opened" ->
            IF Len(file) < minimum_size
            THEN "installer payload is missing or corrupt"
            ELSE IF marker(file) # MAGIC_BYTES
            THEN "installer payload marker mismatch; the installer may be corrupted"
            ELSE "none"
      [] stage = "MagicOK" ->
            IF magic_start(file) < LENGTH_FIELD_SIZE
            THEN "installer payload footer is missing"
            ELSE IF payload_len(file) = 0
            THEN "installer payload is empty"
            ELSE "none"
      [] stage = "PayloadLenOK" ->
            IF payload_len(file) > payload_len_pos(file)
            THEN "installer payload length exceeds executable size"
            ELSE "none"
      [] stage = "PayloadBounded" ->
            IF payload_start(file) < LENGTH_FIELD_SIZE
            THEN "installer metadata footer is missing"
            ELSE IF metadata_len(file) = 0
            THEN "installer metadata is empty"
            ELSE "none"
      [] stage = "MetaLenOK" ->
            IF metadata_len(file) > metadata_len_pos(file)
            THEN "installer metadata length exceeds executable size"
            ELSE "none"
      [] stage = "MetaBounded" ->
            IF serde_json_from_slice(metadata_bytes(file)) = <<>>
            THEN "failed to parse installer metadata"
            ELSE "none"

\* A mutant of CursorAfter: the seek to payload_start that ends
\* read_embedded_layout is left out, and the cursor stays behind the metadata.
CursorAfter_without_final_seek(stage, file) ==
    CASE stage = "Opened" -> Len(file)
      [] stage \in {"MagicOK", "PayloadLenOK"} -> magic_start(file)
      [] stage \in {"PayloadBounded", "MetaLenOK"} -> payload_start(file)
      [] stage = "MetaBounded" -> metadata_start(file) + metadata_len(file)

\* Where the file cursor is once the check that leaves `stage` has passed.
CursorAfter(stage, file) ==
    CASE stage = "Opened" -> Len(file)
      [] stage \in {"MagicOK", "PayloadLenOK"} -> magic_start(file)
      [] stage \in {"PayloadBounded", "MetaLenOK"} -> payload_start(file)
      [] stage = "MetaBounded" -> payload_start(file)

\* The checks of read_embedded_layout from `stage` on: the first error, or
\* "none" when the file passes them all.
RECURSIVE RunTrailerChecks(_, _)
RunTrailerChecks(stage, file) ==
    IF stage \notin TrailerStages THEN "none"
    ELSE IF TrailerCheck(stage, file) # "none" THEN TrailerCheck(stage, file)
    ELSE RunTrailerChecks(NextStage(stage), file)

\* EmbeddedLayout
EmbeddedLayout(file) ==
    [metadata |-> serde_json_from_slice(metadata_bytes(file))[1],
     payload_len |-> payload_len(file)]

read_embedded_layout(file) ==
    IF RunTrailerChecks("Opened", file) # "none"
    THEN [error |-> RunTrailerChecks("Opened", file), layout |-> <<>>]
    ELSE [error |-> "none", layout |-> <<EmbeddedLayout(file)>>]

-----------------------------------------------------------------------------
(* What the payload unpacks to, and the rest of load_bundle *)

CurrentPlatform == "linux-64"

\* A package of a locked environment: a binary package whose file is or is
\* not in the bundle, or a source package.
LockedPackage(kind, name, subdir, present) ==
    [kind |-> kind, name |-> name, subdir |-> subdir,
     file_name |-> <<name, 1>>, present |-> present]

\* A parsed lockfile: the names of its environments, and the packages of the
\* environment resolve_environment picks, platform by platform.
BundleLock(environments, by_platform) ==
    [state |-> "parsed", environments |-> environments, by_platform |-> by_platform]

\* The files that may be at <bundle root>/conda-lock.yml.
BundleLockfiles ==
    { [state |-> "missing"], [state |-> "unparseable"],
      BundleLock(<<"default">>,
                 << <<CurrentPlatform, <<LockedPackage("binary", "a", CurrentPlatform, TRUE)>> >>,
                    <<NoArch, <<LockedPackage("binary", "b", NoArch, TRUE)>> >>,
                    <<"osx-64", <<LockedPackage("binary", "a", "osx-64", FALSE)>> >> >>),
      BundleLock(<<"prod">>,
                 << <<NoArch, <<LockedPackage("binary", "b", NoArch, TRUE)>> >> >>),
      BundleLock(<<>>, <<>>),
      BundleLock(<<"dev", "prod">>,
                 << <<CurrentPlatform, <<LockedPackage("binary", "a", CurrentPlatform, TRUE)>> >> >>),
      BundleLock(<<"default", "dev">>,
                 << <<CurrentPlatform, <<LockedPackage("binary", "a", CurrentPlatform, TRUE),
                                         LockedPackage("binary", "c", CurrentPlatform, FALSE)>> >> >>),
      BundleLock(<<"default">>,
                 << <<CurrentPlatform, <<LockedPackage("source", "a", CurrentPlatform, TRUE)>> >> >>),
      BundleLock(<<"default">>,
                 << <<"osx-64", <<LockedPackage("source", "a", "osx-64", TRUE)>> >>,
                    <<CurrentPlatform, <<LockedPackage("binary", "a", CurrentPlatform, TRUE),
                                         LockedPackage("binary", "c", CurrentPlatform, TRUE)>> >>,
                    <<NoArch, <<>> >> >>),
      BundleLock(<<"default">>,
                 << <<NoArch, <<LockedPackage("binary", "b", NoArch, FALSE)>> >>,
                    <<CurrentPlatform, <<LockedPackage("binary", "a", CurrentPlatform, TRUE)>> >> >>),
      BundleLock(<<"default">>,
                 << <<CurrentPlatform, <<LockedPackage("binary", "a", CurrentPlatform, TRUE)>> >>,
                    <<NoArch, <<LockedPackage("source", "b", NoArch, TRUE)>> >> >>),
      BundleLock(<<"prod">>, << <<CurrentPlatform, <<>> >> >>) }

\* resolve_bundle_root on the entries of the temporary directory.
resolve_bundle_root_first_dir(entries) ==
    IF Len(SelectSeq(entries, LAMBDA e : e = "dir")) = 0
    THEN "installer payload did not contain bundle contents"
    ELSE "none"
resolve_bundle_root(entries) ==
    IF Len(SelectSeq(entries, LAMBDA e : e = "dir")) = 1 THEN "none"
    ELSE IF Len(SelectSeq(entries, LAMBDA e : e = "dir")) = 0
    THEN "installer payload did not contain bundle contents"
    ELSE "installer payload contained multiple bundle roots; aborting"

\* resolve_environment(&lockfile, None): "none" or the error.
resolve_environment(lockfile) ==
    IF "default" \in Range(lockfile.environments) THEN "none"
    ELSE IF Len(lockfile.environments) = 0
    THEN "installer bundle did not contain any installation definitions"
    ELSE IF Len(lockfile.environments) = 1 THEN "none"
    ELSE "installer bundle is ambiguous; contact the package author for assistance"

\* The RepoDataRecord collect_records makes of a binary package.
LocalRecord(package) ==
    [name |-> package.name, subdir |-> package.subdir, file_name |-> package.file_name,
     url |-> <<"file", package.subdir, package.file_name>>, channel |-> "local"]

\* The loop of collect_records over the packages of one platform, from the
\* i-th on: the error of the first package it bails on, and the records
\* pushed until then.
RECURSIVE CollectPackages(_, _, _)
CollectPackages(packages, i, records) ==
    IF i > Len(packages) THEN [error |-> "none", records |-> records]
    ELSE IF packages[i].kind = "source"
    THEN [error |-> "installer component is not supported on this system", records |-> records]
    ELSE IF ~packages[i].present
    THEN [error |-> "installer component missing from bundle", records |-> records]
    ELSE CollectPackages(packages, i + 1, Append(records, LocalRecord(packages[i])))

\* A mutant of CollectPlatforms: the platforms are not filtered.
RECURSIVE CollectPlatforms_every_platform(_, _, _, _)
CollectPlatforms_every_platform(by_platform, i, records, has_target_platform) ==
    IF i > Len(by_platform)
    THEN IF has_target_platform
         THEN [error |-> "none", records |-> records]
         ELSE [error |-> "the installer bundle does not include components for platform",
               records |-> <<>>]
    ELSE IF CollectPackages(by_platform[i][2], 1, records).error # "none"
    THEN [error |-> CollectPackages(by_platform[i][2], 1, records).error, records |-> <<>>]
    ELSE CollectPlatforms_every_platform(by_platform, i + 1,
                                         CollectPackages(by_platform[i][2], 1, records).records,
                                         has_target_platform \/ by_platform[i][1] = CurrentPlatform)

\* The loop of collect_records over the platforms, from the i-th on.
RECURSIVE CollectPlatforms(_, _, _, _)
CollectPlatforms(by_platform, i, records, has_target_platform) ==
    IF i > Len(by_platform)
    THEN IF has_target_platform
         THEN [error |-> "none", records |-> records]
         ELSE [error |-> "the installer bundle does not include components for platform",
               records |-> <<>>]
    ELSE IF by_platform[i][1] # CurrentPlatform /\ by_platform[i][1] # NoArch
    THEN CollectPlatforms(by_platform, i + 1, records, has_target_platform)
    ELSE IF CollectPackages(by_platform[i][2], 1, records).error # "none"
    THEN [error |-> CollectPackages(by_platform[i][2], 1, records).error, records |-> <<>>]
    ELSE CollectPlatforms(by_platform, i + 1,
                          CollectPackages(by_platform[i][2], 1, records).records,
                          has_target_platform \/ by_platform[i][1] = CurrentPlatform)

collect_records(lockfile) == CollectPlatforms(lockfile.by_platform, 1, <<>>, FALSE)

\* The drawn images: what the assembler writes for a launcher, a metadata
\* blob and a payload, whole or damaged on the way to the user: cut at the
\* front, cut at the end, or with one byte overwritten.
Launchers == SeqsUpTo({127}, MaxLauncherLen)
MetadataBlobs == SeqsUpTo({123, 125}, MaxMetadataLen)
Payloads == SeqsUpTo({31}, MaxPayloadLen)

Damages(file) ==
    {[kind |-> "none", at |-> 0, byte |-> 0]}
        \cup {[kind |-> k, at |-> n, byte |-> 0] :
                 k \in {"drop_head", "drop_tail"}, n \in 1..Len(file)}
        \cup {[kind |-> "overwrite", at |-> n, byte |-> b] : n \in 1..Len(file), b \in {0, 2}}

Damaged(file, damage) ==
    CASE damage.kind = "none" -> file
      [] damage.kind = "drop_head" -> SubSeq(file, damage.at + 1, Len(file))
      [] damage.kind = "drop_tail" -> SubSeq(file, 1, Len(file) - damage.at)
      [] damage.kind = "overwrite" -> [file EXCEPT ![damage.at] = damage.byte]

\* load_bundle has opened the running executable.
ImgInit ==
    /\ \E launcher \in Launchers, metadata \in MetadataBlobs, payload \in Payloads :
         /\ img_parts = [launcher |-> launcher, metadata |-> metadata, payload |-> payload]
         /\ \E damage \in Damages(Assemble(launcher, metadata, payload)) :
              img_file = Damaged(Assemble(launcher, metadata, payload), damage)
    /\ img_stage = "Opened"
    /\ img_history = <<"Opened">>
    /\ img_error = "none"
    /\ img_layout = <<>>
    /\ img_pos = 0
    /\ img_temp_dir = "none"
    /\ img_tree = <<>>
    /\ img_lockfile = <<>>
    /\ img_records = <<>>
    /\ img_metadata = <<>>

\* load_bundle returns Err(reason); the file and the TempDir are dropped.
ImgFail(reason) ==
    /\ img_error' = reason
    /\ img_temp_dir' = IF img_temp_dir = "present" THEN "deleted" ELSE img_temp_dir
    /\ UNCHANGED <<img_parts, img_file, img_stage, img_history, img_layout, img_pos,
                   img_tree, img_lockfile, img_records, img_metadata>>

\* load_bundle reaches the next stage.
ImgAdvance ==
    /\ img_stage' = NextStage(img_stage)
    /\ img_history' = Append(img_history, NextStage(img_stage))
    /\ UNCHANGED <<img_parts, img_file, img_error>>

\* One check of read_embedded_layout.
ReadEmbeddedLayout ==
    /\ img_error = "none"
    /\ img_stage \in TrailerStages
    /\ \E e \in {TrailerCheck(img_stage, img_file)} :
         IF e # "none" THEN ImgFail(e)
         ELSE /\ ImgAdvance
              /\ img_pos' = CursorAfter(img_stage, img_file)
              /\ img_layout' = IF img_stage = "MetaBounded"
                               THEN <<EmbeddedLayout(img_file)>>
                               ELSE img_layout
              /\ UNCHANGED <<img_temp_dir, img_tree, img_lockfile, img_records, img_metadata>>
    /\ UNCHANGED notImgVars

\* TempDir::new and archive.unpack of the payload_len bytes at the cursor.
\* The gzip and tar decoders are libraries: the payload fails to unpack, or
\* unpacks to some top-level entries.
ExtractPayload ==
    /\ img_error = "none"
    /\ img_stage = "MetaParsed"
    /\ \/ /\ img_error' = "failed to unpack installer payload"
          /\ img_temp_dir' = "deleted"
          /\ img_pos' \in img_pos..(img_pos + img_layout[1].payload_len)
          /\ UNCHANGED <<img_parts, img_file, img_stage, img_history, img_tree>>
       \/ /\ ImgAdvance
          /\ img_temp_dir' = "present"
          /\ img_pos' = img_pos + img_layout[1].payload_len
          /\ img_tree' \in {<<entries>> : entries \in SeqsUpTo({"dir", "file"}, MaxRootEntries)}
    /\ UNCHANGED <<img_layout, img_lockfile, img_records, img_metadata>>
    /\ UNCHANGED notImgVars

ResolveBundleRoot ==
    /\ img_error = "none"
    /\ img_stage = "PayloadExtracted"
    /\ \E e \in {resolve_bundle_root(img_tree[1])} :
         IF e # "none" THEN ImgFail(e)
         ELSE /\ ImgAdvance
              /\ UNCHANGED <<img_layout, img_pos, img_temp_dir, img_tree, img_lockfile,
                             img_records, img_metadata>>
    /\ UNCHANGED notImgVars

\* locate_lockfile and LockFile::from_path on the bundle root.
ReadLockfile ==
    /\ img_error = "none"
    /\ img_stage = "BundleRootResolved"
    /\ \E lockfile \in BundleLockfiles :
         IF lockfile.state = "missing"
         THEN ImgFail("installer resources are incomplete")
         ELSE IF lockfile.state = "unparseable"
         THEN ImgFail("failed to read lockfile")
         ELSE /\ ImgAdvance
              /\ img_lockfile' = <<lockfile>>
              /\ UNCHANGED <<img_layout, img_pos, img_temp_dir, img_tree, img_records,
                             img_metadata>>
    /\ UNCHANGED notImgVars

\* resolve_environment and collect_records.
PrepareRecords ==
    /\ img_error = "none"
    /\ img_stage = "LockfileRead"
    /\ \E e \in {resolve_environment(img_lockfile[1])}, c \in {collect_records(img_lockfile[1])} :
         IF e # "none" THEN ImgFail(e)
         ELSE IF c.error # "none" THEN ImgFail(c.error)
         ELSE /\ ImgAdvance
              /\ img_records' = c.records
              /\ UNCHANGED <<img_layout, img_pos, img_temp_dir, img_tree, img_lockfile,
                             img_metadata>>
    /\ UNCHANGED notImgVars

\* load_bundle_metadata, and the BundleData load_bundle returns.
LoadBundleMetadata ==
    /\ img_error = "none"
    /\ img_stage = "RecordsPrepared"
    /\ \E metadata_file \in {"absent", "invalid", "valid"} :
         IF metadata_file = "invalid" THEN ImgFail("failed to parse bundle metadata")
         ELSE /\ ImgAdvance
              /\ img_metadata' = <<IF metadata_file = "absent" THEN "fallback" ELSE "manifest">>
              /\ UNCHANGED <<img_layout, img_pos, img_temp_dir, img_tree, img_lockfile,
                             img_records>>
    /\ UNCHANGED notImgVars

ImgNext ==
    \/ ReadEmbeddedLayout
    \/ ExtractPayload
    \/ ResolveBundleRoot
    \/ ReadLockfile
    \/ PrepareRecords
    \/ LoadBundleMetadata

\* The installer's variables while another part of the program runs.
ImgIdle ==
    /\ img_parts = <<>>
    /\ img_file = <<>>
    /\ img_stage = "idle"
    /\ img_history = <<>>
    /\ img_error = "none"
    /\ img_layout = <<>>
    /\ img_pos = 0
    /\ img_temp_dir = "none"
    /\ img_tree = <<>>
    /\ img_lockfile = <<>>
    /\ img_records = <<>>
    /\ img_metadata = <<>>

-----------------------------------------------------------------------------
(* The package cache and the staged channel (downloader.rs)                *)
(*                                                                         *)
(* A directory is a function from the paths below it to the bytes of the   *)
(* file there, or NoFile. A path is <<subdir, file name>>, and a file name *)
(* is the sequence of its dot-separated parts.                             *)

NoFile == "(no file)"

\* compute_bytes_digest::<Sha256>, by its interface: different bytes have
\* different digests.
Sha256(bytes) == <<"sha256", bytes>>

\* A record as download_and_stage_packages reads it, with what its URL
\* serves upstream.
DlRecord(subdir, file_name, upstream, sha256) ==
    [subdir |-> subdir, file_name |-> file_name,
     url |-> <<"https", subdir, file_name>>, upstream |-> upstream, sha256 |-> sha256]

DlRecords ==
    { DlRecord("linux-64", <<"a-1", "tar", "bz2">>, "bytes of a", <<Sha256("bytes of a")>>),
      DlRecord(NoArch, <<"b-1", "conda">>, "bytes of b", <<>>),
      DlRecord(NoArch, <<"b-1", "conda">>, "bytes of b", <<Sha256("bytes of b")>>) }

\* Path::with_extension
with_extension(file_name, extension) ==
    IF Len(file_name) = 1 THEN Append(file_name, extension)
    ELSE [file_name EXCEPT ![Len(file_name)] = extension]

\* cache_subdir.join(&file_name) and channel_subdir.join(&file_name)
PathOf(entry) == <<entry.subdir, entry.file_name>>

\* cached_path.with_extension("part")
PartPathOf(entry) == <<entry.subdir, with_extension(entry.file_name, "part")>>

DlPaths == {PathOf(r) : r \in DlRecords} \cup {PartPathOf(r) : r \in DlRecords}

\* What a file of the cache may hold when the first run starts: nothing, the
\* package, or other bytes.
DlBlobs == {r.upstream : r \in DlRecords} \cup {"other bytes"}

EmptyDir == [path \in DlPaths |-> NoFile]

\* The loop of download_and_stage_packages over the records, from the i-th
\* on: the entries, one per (subdir, file_name), the first record of a key
\* winning.
RECURSIVE DedupEntries(_, _, _, _)
DedupEntries(records, i, seen, entries) ==
    IF i > Len(records) THEN entries
    ELSE IF PathOf(records[i]) \in seen
    THEN DedupEntries(records, i + 1, seen, entries)
    ELSE DedupEntries(records, i + 1, seen \cup {PathOf(records[i])},
                      Append(entries, records[i]))

\* verify_cached_package: whether the cache is ready, and the cache after.
verify_cached_package_trusts_existing(cache, path, expected) ==
    [ready |-> cache[path] # NoFile, cache |-> cache]
verify_cached_package_never_ready(cache, path, expected) ==
    [ready |-> FALSE, cache |-> cache]
verify_cached_package(cache, path, expected) ==
    IF expected = <<>> THEN [ready |-> FALSE, cache |-> cache]
    ELSE IF cache[path] = NoFile THEN [ready |-> FALSE, cache |-> cache]
    ELSE IF Sha256(cache[path]) = expected[1] THEN [ready |-> TRUE, cache |-> cache]
    ELSE [ready |-> FALSE, cache |-> [cache EXCEPT ![path] = NoFile]]

\* What a GET of the URL may give: no response or an error status, the
\* package, or other bytes.
Responses(entry) ==
    {[ok |-> FALSE, bytes |-> NoFile]}
        \cup {[ok |-> TRUE, bytes |-> b] : b \in {entry.upstream, "other bytes"}}

\* download_to_cache for one response: the error, and the cache after.
\* A download that is written to the cache before its checksum is looked at.
download_to_cache_writes_unverified(cache, entry, response) ==
    IF ~response.ok
    THEN [error |-> "failed to download", cache |-> [cache EXCEPT ![PartPathOf(entry)] = NoFile]]
    ELSE [error |-> IF entry.sha256 # <<>> /\ Sha256(response.bytes) # entry.sha256[1]
                    THEN "downloaded package failed checksum validation" ELSE "none",
          cache |-> [cache EXCEPT ![PartPathOf(entry)] = NoFile,
                                  ![PathOf(entry)] = response.bytes]]
download_to_cache(cache, entry, response) ==
    IF ~response.ok
    THEN [error |-> "failed to download",
          cache |-> [cache EXCEPT ![PartPathOf(entry)] = NoFile]]
    ELSE IF entry.sha256 # <<>> /\ Sha256(response.bytes) # entry.sha256[1]
    THEN [error |-> "downloaded package failed checksum validation",
          cache |-> [cache EXCEPT ![PartPathOf(entry)] = NoFile]]
    ELSE [error |-> "none",
          cache |-> [cache EXCEPT ![PartPathOf(entry)] = NoFile,
                                  ![PathOf(entry)] = response.bytes]]

\* copy_into_channel: the channel after.
copy_into_channel(cache, channel, entry) ==
    [channel EXCEPT ![PartPathOf(entry)] = NoFile, ![PathOf(entry)] = cache[PathOf(entry)]]

\* The cache directory outlives the runs: a first run finds it empty, or as
\* earlier runs and their crashes left it.
DlInit ==
    /\ cache_files \in {cache \in [DlPaths -> DlBlobs \cup {NoFile}] :
                          \A r \in DlRecords :
                             /\ cache[PathOf(r)] \in {NoFile, r.upstream, "other bytes"}
                             /\ cache[PartPathOf(r)] \in {NoFile, "other bytes"}}
    /\ channel_files = EmptyDir
    /\ channel_dirs = {}
    /\ dl_run = 0
    /\ dl_pc = "idle"
    /\ dl_pending = {}
    /\ dl_entry = <<>>
    /\ dl_cache_ready = FALSE
    /\ dl_downloaded = FALSE
    /\ dl_fetched = 0
    /\ dl_total = 0
    /\ dl_index_runs = 0
    /\ dl_result = <<>>
    /\ dl_log = <<>>
    /\ dl_lockfiles = {}

\* A run of download_and_stage_packages starts, in a new staging directory:
\* the entries are collected and channel_dir is created.
StartRun ==
    /\ dl_pc \in {"idle", "prepared", "failed"}
    /\ dl_run < MaxRuns
    /\ \E records \in SeqsUpTo(DlRecords, MaxRunRecords) :
         /\ dl_pending' = Range(DedupEntries(records, 1, {}, <<>>))
         /\ dl_total' = Len(DedupEntries(records, 1, {}, <<>>))
    /\ dl_run' = dl_run + 1
    /\ dl_pc' = "stream"
    /\ channel_files' = EmptyDir
    /\ channel_dirs' = {}
    /\ dl_fetched' = 0
    /\ dl_index_runs' = 0
    /\ dl_result' = <<>>
    /\ dl_entry' = <<>>
    /\ dl_cache_ready' = FALSE
    /\ dl_downloaded' = FALSE
    /\ dl_lockfiles' = {}
    /\ UNCHANGED <<cache_files, dl_log>>
    /\ UNCHANGED notDlVars

\* stage_package starts on an entry: the channel subdir and the cache subdir
\* are created.
BeginStage ==
    /\ dl_pc = "stream"
    /\ \E entry \in dl_pending :
         /\ dl_entry' = <<entry>>
         /\ dl_pending' = dl_pending \ {entry}
         /\ channel_dirs' = channel_dirs \cup {entry.subdir}
    /\ dl_pc' = "verify"
    /\ dl_cache_ready' = FALSE
    /\ dl_downloaded' = FALSE
    /\ UNCHANGED <<cache_files, channel_files, dl_run, dl_fetched, dl_total, dl_index_runs,
                   dl_result, dl_log, dl_lockfiles>>
    /\ UNCHANGED notDlVars

VerifyCachedPackage ==
    /\ dl_pc = "verify"
    /\ \E v \in {verify_cached_package(cache_files, PathOf(dl_entry[1]), dl_entry[1].sha256)} :
         /\ dl_cache_ready' = v.ready
         /\ cache_files' = v.cache
         /\ dl_pc' = IF v.ready THEN "copy" ELSE "download"
         /\ dl_log' = Append(dl_log, [run |-> dl_run, entry |-> dl_entry[1],
                                      cache_before |-> cache_files[PathOf(dl_entry[1])],
                                      cache_ready |-> v.ready, downloaded |-> FALSE,
                                      ok |-> FALSE, done |-> FALSE,
                                      cached |-> NoFile, staged |-> NoFile])
    /\ UNCHANGED <<channel_files, channel_dirs, dl_run, dl_pending, dl_entry, dl_downloaded,
                   dl_fetched, dl_total, dl_index_runs, dl_result, dl_lockfiles>>
    /\ UNCHANGED notDlVars

\* The last entry of the log, the one of the call in progress, updated.
CloseCall(ok, downloaded, cache, channel) ==
    [dl_log EXCEPT ![Len(dl_log)] =
        [@ EXCEPT !.ok = ok, !.done = TRUE, !.downloaded = downloaded,
                  !.cached = cache[PathOf(dl_entry[1])],
                  !.staged = channel[PathOf(dl_entry[1])]]]

DownloadToCache ==
    /\ dl_pc = "download"
    /\ \E response \in Responses(dl_entry[1]) :
         \E d \in {download_to_cache(cache_files, dl_entry[1], response)} :
            /\ cache_files' = d.cache
            /\ IF d.error # "none"
               THEN /\ dl_pc' = "returned"
                    /\ dl_result' = <<[ok |-> FALSE, error |-> d.error]>>
                    /\ dl_log' = CloseCall(FALSE, FALSE, d.cache, channel_files)
                    /\ UNCHANGED dl_downloaded
               ELSE /\ dl_pc' = "copy"
                    /\ dl_downloaded' = TRUE
                    /\ UNCHANGED <<dl_result, dl_log>>
    /\ UNCHANGED <<channel_files, channel_dirs, dl_run, dl_pending, dl_entry, dl_cache_ready,
                   dl_fetched, dl_total, dl_index_runs, dl_lockfiles>>
    /\ UNCHANGED notDlVars

\* copy_into_channel, and the counters stage_package updates before Ok(()).
CopyIntoChannel ==
    /\ dl_pc = "copy"
    /\ channel_files' = copy_into_channel(cache_files, channel_files, dl_entry[1])
    /\ dl_fetched' = IF dl_downloaded THEN dl_fetched + 1 ELSE dl_fetched
    /\ dl_log' = CloseCall(TRUE, dl_downloaded, cache_files,
                           copy_into_channel(cache_files, channel_files, dl_entry[1]))
    /\ dl_pc' = "stream"
    /\ UNCHANGED <<cache_files, channel_dirs, dl_run, dl_pending, dl_entry, dl_cache_ready,
                   dl_downloaded, dl_total, dl_index_runs, dl_result, dl_lockfiles>>
    /\ UNCHANGED notDlVars

\* A mutant of FinishRun: the channel is indexed without ensure_noarch.
FinishRun_without_ensure_noarch ==
    /\ dl_pc = "stream"
    /\ dl_pending = {}
    /\ dl_index_runs' = dl_index_runs + 1
    /\ dl_result' = <<[ok |-> TRUE, total_packages |-> dl_total,
                       fetched_packages |-> dl_fetched]>>
    /\ dl_pc' = "returned"
    /\ UNCHANGED <<cache_files, channel_files, channel_dirs, dl_run, dl_pending, dl_entry,
                   dl_cache_ready, dl_downloaded, dl_fetched, dl_total, dl_log, dl_lockfiles>>
    /\ UNCHANGED notDlVars

\* Every entry is staged: ensure_noarch, index_channel and the summary.
FinishRun ==
    /\ dl_pc = "stream"
    /\ dl_pending = {}
    /\ channel_dirs' = channel_dirs \cup {NoArch}
    /\ dl_index_runs' = dl_index_runs + 1
    /\ dl_result' = <<[ok |-> TRUE, total_packages |-> dl_total,
                       fetched_packages |-> dl_fetched]>>
    /\ dl_pc' = "returned"
    /\ UNCHANGED <<cache_files, channel_files, dl_run, dl_pending, dl_entry, dl_cache_ready,
                   dl_downloaded, dl_fetched, dl_total, dl_log, dl_lockfiles>>
    /\ UNCHANGED notDlVars

\* environment.rs:188-230: prepare_environment takes the Result of the run.
\* An Err leaves through `?`; after an Ok the workspace lockfile and the
\* lockfile of the staged channel are written.
ReturnToCaller ==
    /\ dl_pc = "returned"
    /\ IF dl_result[1].ok
       THEN /\ dl_lockfiles' = {"workspace", "bundle"}
            /\ dl_pc' = "prepared"
       ELSE /\ dl_pc' = "failed"
            /\ UNCHANGED dl_lockfiles
    /\ UNCHANGED <<cache_files, channel_files, channel_dirs, dl_run, dl_pending, dl_entry,
                   dl_cache_ready, dl_downloaded, dl_fetched, dl_total, dl_index_runs,
                   dl_result, dl_log>>
    /\ UNCHANGED notDlVars

DlNext ==
    \/ StartRun
    \/ BeginStage
    \/ VerifyCachedPackage
    \/ DownloadToCache
    \/ CopyIntoChannel
    \/ FinishRun
    \/ ReturnToCaller

\* The downloader's variables while another part of the program runs.
DlIdle ==
    /\ cache_files = <<>>
    /\ channel_files = <<>>
    /\ channel_dirs = {}
    /\ dl_run = 0
    /\ dl_pc = "off"
    /\ dl_pending = {}
    /\ dl_entry = <<>>
    /\ dl_cache_ready = FALSE
    /\ dl_downloaded = FALSE
    /\ dl_fetched = 0
    /\ dl_total = 0
    /\ dl_index_runs = 0
    /\ dl_result = <<>>
    /\ dl_log = <<>>
    /\ dl_lockfiles = {}

-----------------------------------------------------------------------------
(* stage_package tasks in flight at once (downloader.rs)                   *)
(*                                                                         *)
(* Every tokio::fs call is one step, except fs::write and fs::copy, which  *)
(* open (create or truncate) the destination in one step and have written  *)
(* it in a later one. A path names a file (an inode), and a file that is   *)
(* renamed while it is being written stays the file being written.         *)

Tasks == 1..MaxTasks

\* Two runs of download_and_stage_packages: tasks of one run share a
\* channel directory, all tasks share the cache directory.
RunDirs == {"run1", "run2"}

CacheDir == "cache"

NoInode == <<"none">>

\* What a file holds between its truncation and the end of the write, and
\* what it may hold after two writers wrote different bytes to it at once.
PartialBytes == "partial bytes"
MixedBytes == "mixed bytes"

\* dir.join(&subdir).join(&file_name)
FsPath(dir, path) == <<dir, path[1], path[2]>>

FsPaths == {FsPath(dir, path) : dir \in RunDirs \cup {CacheDir}, path \in DlPaths}

\* The files: those the cache held at the start, and the one each task
\* creates in the cache and in its channel.
Inodes ==
    {<<"old", path>> : path \in DlPaths}
        \cup {<<"new", t, dir>> : t \in Tasks, dir \in {"cache", "channel"}}

\* The paths of a task.
cached_path(task) == FsPath(CacheDir, PathOf(task.entry))
\* A download written in place, with no `.part` file.
cache_temp_path_in_place(task) == FsPath(CacheDir, PathOf(task.entry))
cache_temp_path(task) == FsPath(CacheDir, PartPathOf(task.entry))
staged_path(task) == FsPath(task.run, PathOf(task.entry))
staged_temp_path(task) == FsPath(task.run, PartPathOf(task.entry))

\* The positions at which a task holds a file open for writing.
BusyPcs == {"dl_write_busy", "dl_write_detached", "cp_copy_busy", "cp_copy_detached"}

\* The positions at which a task has stopped.
StoppedPcs == {"done", "failed", "cancelled"}

\* The bytes of a file nobody names and nobody writes are gone.
Settle(names, data, tks) ==
    [i \in Inodes |->
        IF \/ \E p \in FsPaths : names[p] = i
           \/ \E t \in Tasks : tks[t].pc \in BusyPcs /\ i \in {tks[t].handle, tks[t].source}
        THEN data[i]
        ELSE NoFile]

\* The bytes at a path, or NoFile.
FileAt(names, data, path) == IF names[path] = NoInode THEN NoFile ELSE data[names[path]]

\* The stream is dropped when a task of the run returns an error: a task of
\* that run that is between two calls never runs again, and one whose write
\* or copy is under way on the blocking pool has it finished there.
Dropped(task) ==
    IF task.pc \in StoppedPcs \cup {"dl_write_detached", "cp_copy_detached"} THEN task
    ELSE IF task.pc = "dl_write_busy" THEN [task EXCEPT !.pc = "dl_write_detached"]
    ELSE IF task.pc = "cp_copy_busy" THEN [task EXCEPT !.pc = "cp_copy_detached"]
    ELSE [task EXCEPT !.pc = "cancelled"]

\* Task t goes to position pc.
Goto(t, at) == [tasks EXCEPT ![t].pc = at]

\* Task t returns Err(reason), and try_collect drops the tasks of its run.
Failing(t, reason) ==
    [u \in Tasks |->
        IF u = t THEN [tasks[t] EXCEPT !.pc = "failed", !.error = reason]
        ELSE IF tasks[u].run = tasks[t].run THEN Dropped(tasks[u])
        ELSE tasks[u]]

TaskInit ==
    /\ tasks \in {tks \in [Tasks -> [entry : DlRecords, run : RunDirs, pc : {"verify_stat"},
                                     bytes : {NoFile}, handle : {NoInode}, source : {NoInode},
                                     downloaded : {FALSE}, error : {"none"}]] :
                    \A t, u \in Tasks :
                       (t # u /\ tks[t].run = tks[u].run) =>
                           PathOf(tks[t].entry) # PathOf(tks[u].entry)}
    /\ \E cache \in {c \in [DlPaths -> DlBlobs \cup {NoFile}] :
                        \A r \in DlRecords :
                           /\ c[PathOf(r)] \in {NoFile, r.upstream, "other bytes"}
                           /\ c[PartPathOf(r)] \in {NoFile, "other bytes"}} :
         /\ fs_names = [p \in FsPaths |->
                          IF p[1] = CacheDir /\ cache[<<p[2], p[3]>>] # NoFile
                          THEN <<"old", <<p[2], p[3]>>>> ELSE NoInode]
         /\ fs_data = [i \in Inodes |-> IF i[1] = "old" THEN cache[i[2]] ELSE NoFile]

\* fs::metadata(path).is_ok() by task t at position pc.
StatStep(t, at, path, pc_found, pc_absent) ==
    /\ tasks[t].pc = at
    /\ tasks' = Goto(t, IF fs_names[path] # NoInode THEN pc_found ELSE pc_absent)
    /\ UNCHANGED <<fs_names, fs_data>>

\* fs::remove_file(path) by task t at position pc; it fails when no file is
\* at the path any more.
RemoveStep(t, at, path, reason, pc_next) ==
    /\ tasks[t].pc = at
    /\ IF fs_names[path] = NoInode
       THEN /\ tasks' = Failing(t, reason)
            /\ UNCHANGED <<fs_names, fs_data>>
       ELSE /\ tasks' = Goto(t, pc_next)
            /\ fs_names' = [fs_names EXCEPT ![path] = NoInode]
            /\ fs_data' = Settle([fs_names EXCEPT ![path] = NoInode], fs_data, Goto(t, pc_next))

\* The file a task writes when it opens `path` for writing: the one at the
\* path, or a new one.
OpenedFile(t, dir, path) == IF fs_names[path] # NoInode THEN fs_names[path] ELSE <<"new", t, dir>>

\* The first half of fs::write and of fs::copy: the file at `path` is created
\* or truncated.
OpenStep(t, at, dir, path, source, pc_busy) ==
    /\ tasks[t].pc = at
    /\ tasks' = [tasks EXCEPT ![t].pc = pc_busy, ![t].handle = OpenedFile(t, dir, path),
                              ![t].source = source]
    /\ fs_names' = [fs_names EXCEPT ![path] = OpenedFile(t, dir, path)]
    /\ fs_data' = [fs_data EXCEPT ![OpenedFile(t, dir, path)] = PartialBytes]

\* What a file holds when task t has written `bytes` to it: a file another
\* task is still writing is not whole yet, and two writers of different bytes
\* may leave a mix of them.
Written(t, bytes) ==
    IF \E u \in Tasks \ {t} : tasks[u].pc \in BusyPcs /\ tasks[u].handle = tasks[t].handle
    THEN IF \E u \in Tasks \ {t} : /\ tasks[u].pc \in BusyPcs
                                   /\ tasks[u].handle = tasks[t].handle
                                   /\ tasks[u].bytes # bytes
         THEN {MixedBytes}
         ELSE {PartialBytes}
    ELSE IF fs_data[tasks[t].handle] = MixedBytes THEN {MixedBytes, bytes}
    ELSE {bytes}

\* The second half of fs::write and of fs::copy. A task that was dropped
\* meanwhile stops here.
FinishStep(t, pc_busy, pc_detached, bytes, pc_next) ==
    /\ tasks[t].pc \in {pc_busy, pc_detached}
    /\ \E tks \in {[tasks EXCEPT ![t].pc = IF tasks[t].pc = pc_busy THEN pc_next ELSE "cancelled",
                                 ![t].handle = NoInode, ![t].source = NoInode]} :
         /\ tasks' = tks
         /\ \E written \in Written(t, bytes) :
              fs_data' = Settle(fs_names, [fs_data EXCEPT ![tasks[t].handle] = written], tks)
    /\ UNCHANGED fs_names

\* fs::rename(from, to) by task t at position pc; it fails when no file is
\* at `from` any more.
RenameStep(t, at, from, to, reason, pc_next, downloaded) ==
    /\ tasks[t].pc = at
    /\ IF fs_names[from] = NoInode
       THEN /\ tasks' = Failing(t, reason)
            /\ UNCHANGED <<fs_names, fs_data>>
       ELSE \E tks \in {[tasks EXCEPT ![t].pc = pc_next, ![t].downloaded = downloaded]} :
               /\ tasks' = tks
               /\ fs_names' = [fs_names EXCEPT ![to] = fs_names[from], ![from] = NoInode]
               /\ fs_data' = Settle([fs_names EXCEPT ![to] = fs_names[from], ![from] = NoInode],
                                    fs_data, tks)

\* `if path exists { remove_file(path) }` on a path that only task t names.
ClearStep(t, at, path, pc_next) ==
    /\ tasks[t].pc = at
    /\ tasks' = Goto(t, pc_next)
    /\ fs_names' = [fs_names EXCEPT ![path] = NoInode]
    /\ fs_data' = Settle([fs_names EXCEPT ![path] = NoInode], fs_data, Goto(t, pc_next))

\* ---- verify_cached_package ----

VerifyStat ==
    /\ \E t \in Tasks :
         /\ tasks[t].pc = "verify_stat"
         /\ tasks' = Goto(t, IF tasks[t].entry.sha256 = <<>>
                                  \/ fs_names[cached_path(tasks[t])] = NoInode
                             THEN "dl_stat_temp" ELSE "verify_read")
         /\ UNCHANGED <<fs_names, fs_data>>
    /\ UNCHANGED notTaskVars

VerifyRead ==
    /\ \E t \in Tasks :
         /\ tasks[t].pc = "verify_read"
         /\ tasks' = IF fs_names[cached_path(tasks[t])] = NoInode
                     THEN Failing(t, "failed to read cached package")
                     ELSE IF Sha256(FileAt(fs_names, fs_data, cached_path(tasks[t])))
                               = tasks[t].entry.sha256[1]
                     THEN Goto(t, "cp_clear_temp")
                     ELSE Goto(t, "verify_remove")
         /\ UNCHANGED <<fs_names, fs_data>>
    /\ UNCHANGED notTaskVars

\* fs::remove_file(path).await.ok(): an error is ignored.
VerifyRemove ==
    /\ \E t \in Tasks :
         /\ tasks[t].pc = "verify_remove"
         /\ tasks' = Goto(t, "dl_stat_temp")
         /\ fs_names' = [fs_names EXCEPT ![cached_path(tasks[t])] = NoInode]
         /\ fs_data' = Settle([fs_names EXCEPT ![cached_path(tasks[t])] = NoInode], fs_data,
                              Goto(t, "dl_stat_temp"))
    /\ UNCHANGED notTaskVars

\* ---- download_to_cache ----

StatCacheTemp ==
    /\ \E t \in Tasks :
         StatStep(t, "dl_stat_temp", cache_temp_path(tasks[t]), "dl_remove_temp", "dl_get")
    /\ UNCHANGED notTaskVars

RemoveCacheTemp ==
    /\ \E t \in Tasks :
         RemoveStep(t, "dl_remove_temp", cache_temp_path(tasks[t]), "failed to remove", "dl_get")
    /\ UNCHANGED notTaskVars

\* The GET, error_for_status, the body and the checksum of the body.
GetPackage ==
    /\ \E t \in Tasks :
         /\ tasks[t].pc = "dl_get"
         /\ \E response \in Responses(tasks[t].entry) :
              tasks' = IF ~response.ok THEN Failing(t, "failed to download")
                       ELSE IF /\ tasks[t].entry.sha256 # <<>>
                               /\ Sha256(response.bytes) # tasks[t].entry.sha256[1]
                       THEN Failing(t, "downloaded package failed checksum validation")
                       ELSE [tasks EXCEPT ![t].pc = "dl_write_open", ![t].bytes = response.bytes]
         /\ UNCHANGED <<fs_names, fs_data>>
    /\ UNCHANGED notTaskVars

WriteTempOpen ==
    /\ \E t \in Tasks :
         OpenStep(t, "dl_write_open", "cache", cache_temp_path(tasks[t]), NoInode, "dl_write_busy")
    /\ UNCHANGED notTaskVars

WriteTempFinish ==
    /\ \E t \in Tasks :
         FinishStep(t, "dl_write_busy", "dl_write_detached", tasks[t].bytes, "dl_stat_cached")
    /\ UNCHANGED notTaskVars

StatCached ==
    /\ \E t \in Tasks :
         StatStep(t, "dl_stat_cached", cached_path(tasks[t]), "dl_remove_cached", "dl_rename")
    /\ UNCHANGED notTaskVars

RemoveCached ==
    /\ \E t \in Tasks :
         RemoveStep(t, "dl_remove_cached", cached_path(tasks[t]), "failed to replace", "dl_rename")
    /\ UNCHANGED notTaskVars

RenameIntoCache ==
    /\ \E t \in Tasks :
         RenameStep(t, "dl_rename", cache_temp_path(tasks[t]), cached_path(tasks[t]),
                    "failed to persist", "cp_clear_temp", TRUE)
    /\ UNCHANGED notTaskVars

\* ---- copy_into_channel ----

\* `if temp_path exists { remove_file(temp_path) }`: the staging directory
\* belongs to the run and the path to this task, so the two calls are one step.
ClearStagedTemp ==
    /\ \E t \in Tasks :
         ClearStep(t, "cp_clear_temp", staged_temp_path(tasks[t]), "cp_copy_open")
    /\ UNCHANGED notTaskVars

\* fs::copy opens the cached file and creates or truncates the temp file.
CopyOpen ==
    /\ \E t \in Tasks :
         IF fs_names[cached_path(tasks[t])] = NoInode
         THEN /\ tasks[t].pc = "cp_copy_open"
              /\ tasks' = Failing(t, "failed to copy cached package")
              /\ UNCHANGED <<fs_names, fs_data>>
         ELSE OpenStep(t, "cp_copy_open", "channel", staged_temp_path(tasks[t]),
                       fs_names[cached_path(tasks[t])], "cp_copy_busy")
    /\ UNCHANGED notTaskVars

CopyFinish ==
    /\ \E t \in Tasks :
         /\ tasks[t].pc \in {"cp_copy_busy", "cp_copy_detached"}
         /\ FinishStep(t, "cp_copy_busy", "cp_copy_detached", fs_data[tasks[t].source],
                       "cp_clear_staged")
    /\ UNCHANGED notTaskVars

\* `if staged_path exists { remove_file(staged_path) }`.
ClearStaged ==
    /\ \E t \in Tasks :
         ClearStep(t, "cp_clear_staged", staged_path(tasks[t]), "cp_rename")
    /\ UNCHANGED notTaskVars

\* The rename into the channel; stage_package returns Ok(()).
RenameIntoChannel ==
    /\ \E t \in Tasks :
         RenameStep(t, "cp_rename", staged_temp_path(tasks[t]), staged_path(tasks[t]),
                    "failed to persist", "done", tasks[t].downloaded)
    /\ UNCHANGED notTaskVars

TaskNext ==
    \/ VerifyStat
    \/ VerifyRead
    \/ VerifyRemove
    \/ StatCacheTemp
    \/ RemoveCacheTemp
    \/ GetPackage
    \/ WriteTempOpen
    \/ WriteTempFinish
    \/ StatCached
    \/ RemoveCached
    \/ RenameIntoCache
    \/ ClearStagedTemp
    \/ CopyOpen
    \/ CopyFinish
    \/ ClearStaged
    \/ RenameIntoChannel

\* The tasks' variables while another part of the program runs.
TaskIdle ==
    /\ tasks = <<>>
    /\ fs_names = <<>>
    /\ fs_data = <<>>

-----------------------------------------------------------------------------
(* The write of the workspace lockfile (app/environment.rs:222-225).        *)
(* prepare_environment hands the final path to LockFile::to_path of the     *)
(* lock library, which creates the file at that path (an existing one is    *)
(* truncated) and serializes the lockfile into it; no temporary file and no *)
(* rename are involved.                                                     *)

\* A file that was created or truncated and holds nothing yet, and one whose
\* serialization stopped part of the way.
EmptyFile == [state |-> "empty", records |-> {}]
TruncatedFile == [state |-> "truncated", records |-> {}]

\* The workspace lockfile as a run finds it, and the records it solved.
LwInit ==
    /\ lw_before \in LockFiles
    /\ lw_file = lw_before
    /\ lw_records \in SeqsUpTo(Universe, MaxLockRecords - 1)
    /\ lw_pc = "call"

\* File::create(path): the file exists and is empty, or the call fails and
\* `?` returns "failed to write lockfile".
CreateLockFile ==
    /\ lw_pc = "call"
    /\ \/ /\ lw_file' = EmptyFile
          /\ lw_pc' = "created"
       \/ /\ lw_pc' = "failed"
          /\ UNCHANGED lw_file
    /\ UNCHANGED <<lw_before, lw_records>>
    /\ UNCHANGED notLwVars

\* The serialization into the open file: all of it, or an I/O error part of
\* the way, which `?` returns.
SerializeLockFile ==
    /\ lw_pc = "created"
    /\ \/ /\ lw_file' = build_lockfile(lw_records)
          /\ lw_pc' = "written"
       \/ /\ lw_file' \in {EmptyFile, TruncatedFile}
          /\ lw_pc' = "failed"
    /\ UNCHANGED <<lw_before, lw_records>>
    /\ UNCHANGED notLwVars

\* The process is stopped (a signal, a crash) before or during the call.
StopProcess ==
    /\ lw_pc \in {"call", "created"}
    /\ lw_pc' = "stopped"
    /\ UNCHANGED <<lw_file, lw_before, lw_records>>
    /\ UNCHANGED notLwVars

LwNext ==
    \/ CreateLockFile
    \/ SerializeLockFile
    \/ StopProcess

\* The variables of the lockfile write while another part of the program runs.
LwIdle ==
    /\ lw_pc = "off"
    /\ lw_file = MissingFile
    /\ lw_before = MissingFile
    /\ lw_records = <<>>

-----------------------------------------------------------------------------
(* The archive builder (installer.rs, create_tar_gz_for_platform), run      *)
(* more than once over one staged channel. fs::read_dir yields the entries *)
(* of a directory in an order the filesystem chooses.                       *)

\* How many archives are built from one staged channel.
MaxArchives == 2

LOCKFILE_NAME == "conda-lock.yml"
BUNDLE_METADATA_FILE == "bundle-metadata.json"
POST_INSTALL_SCRIPT_NAME == "post-install.sh"

\* The regular files a staged channel may hold at its top level and in a
\* subdir, and the subdirs it may have.
ArchiveTopFiles == {LOCKFILE_NAME, "LICENSE", "README"}
ArchiveSubdirFiles == {"repodata.json", "a-1.conda"}
ArchiveSubdirs == {"linux-64", NoArch}

\* A subdir of the channel: whether it exists, and its files (a set in the
\* channel, a sequence as read_dir yields them).
NoDir(files) == [exists |-> FALSE, files |-> files]
Dir(files) == [exists |-> TRUE, files |-> files]

\* The orders in which read_dir may yield the entries of a directory.
Enumerations(entries) ==
    {e \in [1..Cardinality(entries) -> entries] :
        \A i, j \in 1..Cardinality(entries) : i # j => e[i] # e[j]}

\* The header tar writes for an entry read from disk under
\* HeaderMode::Deterministic: fixed owner and time, mode by kind.
DiskEntry(path, kind) ==
    [path |-> path, kind |-> kind, mode |-> IF kind = "dir" THEN "755" ELSE "644",
     uid |-> 0, gid |-> 0, mtime |-> "deterministic", data |-> <<"disk", path>>]

\* An entry appended from memory with a header built by hand.
DataEntry(path, mode, data) ==
    [path |-> path, kind |-> "file", mode |-> mode, uid |-> 0, gid |-> 0, mtime |-> "0",
     data |-> data]

\* `{root_name}/{name}`
Join(dir, name) == <<dir, name>>

\* installer.rs:357-381: the regular files of the top level in the order
\* read_dir yields them, the lockfile skipped.
RECURSIVE TopLevelEntries(_, _, _)
TopLevelEntries(root_name, listing, i) ==
    IF i > Len(listing) THEN <<>>
    ELSE IF listing[i] = LOCKFILE_NAME THEN TopLevelEntries(root_name, listing, i + 1)
    ELSE <<DiskEntry(Join(root_name, listing[i]), "file")>>
             \o TopLevelEntries(root_name, listing, i + 1)

\* Builder::append_dir_all on a subdir of files: the directory, then its
\* files as the walk pops them, the last one read_dir yielded first.
RECURSIVE WalkedFiles(_, _, _)
WalkedFiles(dir, listing, i) ==
    IF i < 1 THEN <<>>
    ELSE <<DiskEntry(<<dir[1], dir[2], listing[i]>>, "file")>> \o WalkedFiles(dir, listing, i - 1)

append_dir_all(dir, listing) == <<DiskEntry(dir, "dir")>> \o WalkedFiles(dir, listing, Len(listing))

\* installer.rs:383-385: noarch and the platform, sorted and deduplicated.
SortedSubdirs(platform) ==
    IF platform = NoArch THEN <<NoArch>>
    ELSE IF platform = "linux-64" THEN <<"linux-64", NoArch>>
    ELSE <<NoArch, platform>>

\* installer.rs:387-394: the subdirs that exist, in that order.
RECURSIVE SubdirEntries(_, _, _, _)
SubdirEntries(root_name, subdirs, listings, i) ==
    IF i > Len(subdirs) THEN <<>>
    ELSE (IF subdirs[i] \in DOMAIN listings /\ listings[subdirs[i]].exists
          THEN append_dir_all(Join(root_name, subdirs[i]), listings[subdirs[i]].files)
          ELSE <<>>)
         \o SubdirEntries(root_name, subdirs, listings, i + 1)

\* The gzip stream of a tar stream, at compression level 6.
GzEncode(entries) == <<"gzip", "level 6", entries>>

\* create_tar_gz_for_platform, given what read_dir yields for the top level
\* (top_listing) and for each subdir that exists (listings).
create_tar_gz_for_platform(root_name, top_listing, listings, platform, installer_bytes, script) ==
    GzEncode(
        <<DiskEntry(<<root_name>>, "dir")>>
        \o (IF \E i \in 1..Len(top_listing) : top_listing[i] = LOCKFILE_NAME
            THEN <<DiskEntry(Join(root_name, LOCKFILE_NAME), "file")>>
            ELSE <<>>)
        \o TopLevelEntries(root_name, top_listing, 1)
        \o SubdirEntries(root_name, SortedSubdirs(platform), listings, 1)
        \o <<DataEntry(Join(root_name, BUNDLE_METADATA_FILE), "644", "metadata")>>
        \o (IF script
            THEN <<DataEntry(Join(root_name, POST_INSTALL_SCRIPT_NAME), "755", "script")>>
            ELSE <<>>)
        \o <<DataEntry(Join(root_name, "installer"), "755", installer_bytes)>>)

\* A staged channel, a platform and the metadata; nothing is built yet.
TarInit ==
    /\ tar_root \in [top : SUBSET ArchiveTopFiles,
                     subdirs : [ArchiveSubdirs ->
                                  {NoDir({})} \cup {Dir(S) : S \in SUBSET ArchiveSubdirFiles}]]
    /\ tar_platform \in ArchiveSubdirs
    /\ tar_post_install \in BOOLEAN
    /\ tar_archives = <<>>

\* One run of the archive builder: read_dir yields the top level and each
\* subdir in some order.
BuildArchive ==
    /\ Len(tar_archives) < MaxArchives
    /\ \E top_listing \in Enumerations(tar_root.top) :
       \E listings \in {l \in [ArchiveSubdirs ->
                                 {NoDir(<<>>)}
                                     \cup {Dir(e) : e \in SeqsUpTo(ArchiveSubdirFiles,
                                                                   Cardinality(ArchiveSubdirFiles))}] :
                           \A d \in ArchiveSubdirs :
                              /\ l[d].exists = tar_root.subdirs[d].exists
                              /\ l[d].files \in Enumerations(tar_root.subdirs[d].files)} :
           tar_archives' = Append(tar_archives,
                                  create_tar_gz_for_platform("env", top_listing, listings,
                                                             tar_platform, "launcher bytes",
                                                             tar_post_install))
    /\ UNCHANGED <<tar_root, tar_platform, tar_post_install>>
    /\ UNCHANGED notTarVars

TarNext == BuildArchive

\* The variables of the archive builder while another part of the program runs.
TarIdle ==
    /\ tar_root = <<>>
    /\ tar_platform = ""
    /\ tar_post_install = FALSE
    /\ tar_archives = <<>>

-----------------------------------------------------------------------------
(* PreparedBundleMetadata::from_config (installer.rs:62-142)                *)

\* The longest list of featured packages that is drawn.
MaxFeatured == 3

\* Featured package names as a manifest may spell them.
RawNames == {"a", "A", "c", "not a name"}

\* PackageName::from_str: <<>> for a string that is not a package name, else
\* the name with its normalized (lower-case) form; two package names are
\* equal when their normalized forms are.
PackageName_from_str(raw) ==
    IF raw = "not a name" THEN <<>>
    ELSE <<[source |-> raw, normalized |-> IF raw = "A" THEN "a" ELSE raw]>>

\* A mutant of FeaturedLoop: a name that was seen before is pushed again.
RECURSIVE FeaturedLoop_keeps_duplicates(_, _, _, _, _)
FeaturedLoop_keeps_duplicates(featured_packages, i, available_names, seen, list) ==
    IF i > Len(featured_packages) THEN [error |-> "none", featured |-> list]
    ELSE IF PackageName_from_str(featured_packages[i]) = <<>>
    THEN [error |-> "is not a valid package name", featured |-> <<>>]
    ELSE IF PackageName_from_str(featured_packages[i])[1].normalized \notin available_names
    THEN [error |-> "was not found in the resolved environment", featured |-> <<>>]
    ELSE FeaturedLoop_keeps_duplicates(
             featured_packages, i + 1, available_names, seen,
             Append(list, PackageName_from_str(featured_packages[i])[1].normalized))

\* installer.rs:85-107: the loop over featured_packages from the i-th on,
\* with the names seen and the list built so far.
RECURSIVE FeaturedLoop(_, _, _, _, _)
FeaturedLoop(featured_packages, i, available_names, seen, list) ==
    IF i > Len(featured_packages) THEN [error |-> "none", featured |-> list]
    ELSE IF PackageName_from_str(featured_packages[i]) = <<>>
    THEN [error |-> "is not a valid package name", featured |-> <<>>]
    ELSE IF PackageName_from_str(featured_packages[i])[1].normalized \notin available_names
    THEN [error |-> "was not found in the resolved environment", featured |-> <<>>]
    ELSE IF PackageName_from_str(featured_packages[i])[1].normalized \in seen
    THEN FeaturedLoop(featured_packages, i + 1, available_names, seen, list)
    ELSE FeaturedLoop(featured_packages, i + 1, available_names,
                      seen \cup {PackageName_from_str(featured_packages[i])[1].normalized},
                      Append(list, PackageName_from_str(featured_packages[i])[1].normalized))

\* from_config: the error, or the manifest.
from_config(environment_name, config, names) ==
    IF FeaturedLoop(config.featured_packages, 1, names, {}, <<>>).error # "none"
    THEN [ok |-> FALSE,
          error |-> FeaturedLoop(config.featured_packages, 1, names, {}, <<>>).error,
          display_name |-> "", featured_packages |-> <<>>, post_install |-> FALSE]
    ELSE IF config.post_install_script = "unreadable"
    THEN [ok |-> FALSE, error |-> "failed to read post-install script",
          display_name |-> "", featured_packages |-> <<>>, post_install |-> FALSE]
    ELSE [ok |-> TRUE, error |-> "none",
          display_name |-> IF config.display_name = <<>> THEN environment_name
                           ELSE config.display_name[1],
          featured_packages |-> FeaturedLoop(config.featured_packages, 1, names, {}, <<>>).featured,
          post_install |-> config.post_install_script = "readable"]

MetaInit ==
    /\ meta_env = "env"
    /\ meta_config \in [display_name : {<<>>, <<"My Bundle">>},
                        featured_packages : SeqsUpTo(RawNames, MaxFeatured),
                        post_install_script : {"none", "readable", "unreadable"}]
    /\ meta_names \in SUBSET {"a", "b", "c"}
    /\ meta_result = <<>>

FromConfig ==
    /\ meta_result = <<>>
    /\ meta_result' = <<from_config(meta_env, meta_config, meta_names)>>
    /\ UNCHANGED <<meta_env, meta_config, meta_names>>
    /\ UNCHANGED notMetaVars

MetaNext == FromConfig

\* The variables of from_config while another part of the program runs.
MetaIdle ==
    /\ meta_env = ""
    /\ meta_config = <<>>
    /\ meta_names = {}
    /\ meta_result = <<>>

-----------------------------------------------------------------------------
(* Virtual packages: conda/virtual_packages.rs *)

\* virtual_packages.rs:145-148.
DEFAULT_LINUX_VERSION == "5.4"
DEFAULT_GLIBC_VERSION == "2.17"
DEFAULT_OSX_VERSION == "13.0"
DEFAULT_WINDOWS_VERSION == "10"

VpPlatforms == {"linux-64", "osx-64", "win-64", NoArch}

\* Platform::is_linux, is_osx, is_windows, is_unix over the drawn platforms.
is_linux(platform) == platform = "linux-64"
is_osx(platform) == platform = "osx-64"
is_windows(platform) == platform = "win-64"
is_unix(platform) == is_linux(platform) \/ is_osx(platform)

\* The strings Version::from_str accepts, among those drawn.
ValidVersions == {DEFAULT_LINUX_VERSION, DEFAULT_GLIBC_VERSION, DEFAULT_OSX_VERSION,
                  DEFAULT_WINDOWS_VERSION, "11.0"}

\* str::trim over the drawn strings.
trim(value) == IF value = " " THEN "" ELSE value

\* virtual_packages.rs:99-108: the version, or the error naming the package.
parse_version(value, name) ==
    IF value \in ValidVersions
    THEN [ok |-> TRUE, version |-> value, error |-> ""]
    ELSE [ok |-> FALSE, version |-> "", error |-> name]

\* The values of a string override: absent, or present with a string.
VersionOverrides == {<<>>, <<"">>, <<"11.0">>, <<"x">>}
TrimmedOverrides == VersionOverrides \cup {<<" ">>}
LibcOverrides == {<<>>, <<[family |-> "glibc", version |-> ""]>>,
                  <<[family |-> "musl", version |-> "11.0"]>>}

\* config.rs:238-250: PlatformVirtualPackageConfig.
VpConfigs == [linux : VersionOverrides, osx : VersionOverrides, win : TrimmedOverrides,
              libc : LibcOverrides, cuda : TrimmedOverrides]

\* Archspec::from_platform: an architecture for every platform but noarch.
Archspec_from_platform(platform) == IF platform = NoArch THEN <<>> ELSE <<"x86_64">>

\* virtual_packages.rs:13-39: VirtualPackages::default() and the platform's
\* defaults. Every field is an Option: <<>> is None.
DefaultPackages(platform) ==
    [unix |-> is_unix(platform),
     win |-> IF is_windows(platform)
             THEN <<[version |-> <<DEFAULT_WINDOWS_VERSION>>]>> ELSE <<>>,
     linux |-> IF is_linux(platform) THEN <<DEFAULT_LINUX_VERSION>> ELSE <<>>,
     libc |-> IF is_linux(platform)
              THEN <<[family |-> "glibc", version |-> DEFAULT_GLIBC_VERSION]>> ELSE <<>>,
     osx |-> IF is_osx(platform) THEN <<DEFAULT_OSX_VERSION>> ELSE <<>>,
     cuda |-> <<>>,
     archspec |-> Archspec_from_platform(platform)]

\* virtual_packages.rs:110-143: a default for each package of the platform
\* that has none.
apply_cross_platform_defaults(platform, packages) ==
    [packages EXCEPT
       !.linux = IF is_linux(platform) /\ packages.linux = <<>>
                 THEN <<DEFAULT_LINUX_VERSION>> ELSE @,
       !.libc = IF is_linux(platform) /\ packages.libc = <<>>
                THEN <<[family |-> "glibc", version |-> DEFAULT_GLIBC_VERSION]>> ELSE @,
       !.osx = IF is_osx(platform) /\ packages.osx = <<>>
               THEN <<DEFAULT_OSX_VERSION>> ELSE @,
       !.win = IF is_windows(platform) /\ packages.win = <<>>
               THEN <<[version |-> <<DEFAULT_WINDOWS_VERSION>>]>> ELSE @]

VpOk(packages) == [ok |-> TRUE, packages |-> packages, error |-> ""]
VpErr(name) == [ok |-> FALSE, packages |-> DefaultPackages(NoArch), error |-> name]

\* virtual_packages.rs:87-94.
OverrideCuda(packages, config) ==
    IF config.cuda = <<>> THEN VpOk(packages)
    ELSE IF trim(config.cuda[1]) = "" THEN VpOk([packages EXCEPT !.cuda = <<>>])
    ELSE IF ~parse_version(config.cuda[1], "__cuda").ok THEN VpErr("__cuda")
    ELSE VpOk([packages EXCEPT !.cuda = <<parse_version(config.cuda[1], "__cuda").version>>])

\* virtual_packages.rs:79-85.
OverrideLibc(packages, config) ==
    IF config.libc = <<>> THEN OverrideCuda(packages, config)
    ELSE IF ~parse_version(config.libc[1].version, "__glibc").ok THEN VpErr("__glibc")
    ELSE OverrideCuda([packages EXCEPT !.libc =
                          <<[family |-> config.libc[1].family,
                             version |-> parse_version(config.libc[1].version, "__glibc").version]>>],
                      config)

\* virtual_packages.rs:68-77.
OverrideWin(packages, config) ==
    IF config.win = <<>> THEN OverrideLibc(packages, config)
    ELSE IF trim(config.win[1]) = ""
    THEN OverrideLibc([packages EXCEPT !.win = <<[version |-> <<>>]>>], config)
    ELSE IF ~parse_version(config.win[1], "__win").ok THEN VpErr("__win")
    ELSE OverrideLibc([packages EXCEPT !.win =
                          <<[version |-> <<parse_version(config.win[1], "__win").version>>]>>],
                      config)

\* virtual_packages.rs:63-66.
OverrideOsx(packages, config) ==
    IF config.osx = <<>> THEN OverrideWin(packages, config)
    ELSE IF ~parse_version(config.osx[1], "__osx").ok THEN VpErr("__osx")
    ELSE OverrideWin([packages EXCEPT !.osx = <<parse_version(config.osx[1], "__osx").version>>],
                     config)

\* virtual_packages.rs:53-97: the overrides in the order linux, osx, win,
\* libc, cuda; the first version that does not parse is the error returned.
apply_overrides(packages, config) ==
    IF config.linux = <<>> THEN OverrideOsx(packages, config)
    ELSE IF ~parse_version(config.linux[1], "__linux").ok THEN VpErr("__linux")
    ELSE OverrideOsx([packages EXCEPT
                         !.linux = <<parse_version(config.linux[1], "__linux").version>>],
                     config)

VPkg(name, version) == [name |-> name, version |-> version]

\* VirtualPackages::into_virtual_packages and GenericVirtualPackage::from:
\* one package for every field that is Some (and __unix when the flag is
\* set); a Windows without a version is __win at version 0.
into_virtual_packages(packages) ==
    UNION {
      IF packages.win = <<>> THEN {}
      ELSE {VPkg("__win", IF packages.win[1].version = <<>> THEN "0"
                          ELSE packages.win[1].version[1])},
      IF packages.unix THEN {VPkg("__unix", "0")} ELSE {},
      IF packages.linux = <<>> THEN {} ELSE {VPkg("__linux", packages.linux[1])},
      IF packages.osx = <<>> THEN {} ELSE {VPkg("__osx", packages.osx[1])},
      IF packages.libc = <<>> THEN {}
      ELSE {VPkg(IF packages.libc[1].family = "glibc" THEN "__glibc" ELSE "__musl",
                 packages.libc[1].version)},
      IF packages.cuda = <<>> THEN {} ELSE {VPkg("__cuda", packages.cuda[1])},
      IF packages.archspec = <<>> THEN {} ELSE {VPkg("__archspec", "1")}}

\* virtual_packages.rs:9-51.
detect_virtual_packages_for_platform(platform, overrides) ==
    IF overrides = <<>>
    THEN [ok |-> TRUE, error |-> "",
          packages |-> into_virtual_packages(
                           apply_cross_platform_defaults(platform, DefaultPackages(platform)))]
    ELSE [ok |-> apply_overrides(
                     apply_cross_platform_defaults(platform, DefaultPackages(platform)),
                     overrides[1]).ok,
          error |-> apply_overrides(
                     apply_cross_platform_defaults(platform, DefaultPackages(platform)),
                     overrides[1]).error,
          packages |-> IF apply_overrides(
                              apply_cross_platform_defaults(platform, DefaultPackages(platform)),
                              overrides[1]).ok
                       THEN into_virtual_packages(
                                apply_overrides(
                                    apply_cross_platform_defaults(platform,
                                                                  DefaultPackages(platform)),
                                    overrides[1]).packages)
                       ELSE {}]

VpInit ==
    /\ vp_platform \in VpPlatforms
    /\ vp_overrides \in {<<>>} \cup {<<config>> : config \in VpConfigs}
    /\ vp_result = <<>>

\* environment.rs:140-143: the virtual packages of one platform of the solve
\* loop.
DetectVirtualPackages ==
    /\ vp_result = <<>>
    /\ UNCHANGED notVpVars
    /\ vp_result' = <<detect_virtual_packages_for_platform(vp_platform, vp_overrides)>>
    /\ UNCHANGED <<vp_platform, vp_overrides>>

VpNext == DetectVirtualPackages

\* The virtual-package variables while another part of the program runs.
VpIdle ==
    /\ vp_platform = ""
    /\ vp_overrides = <<>>
    /\ vp_result = <<>>

-----------------------------------------------------------------------------
(* Specifications *)

InitValidator == ValInit /\ PrepIdle /\ ImgIdle /\ DlIdle /\ TaskIdle /\ LwIdle /\ TarIdle /\ MetaIdle /\ VpIdle

NextValidator == RunValidator

SpecValidator == InitValidator /\ [][NextValidator]_vars

InitPrepare == PrepInit /\ ValIdle /\ ImgIdle /\ DlIdle /\ TaskIdle /\ LwIdle /\ TarIdle /\ MetaIdle /\ VpIdle

NextPrepare == PrepNext

SpecPrepare == InitPrepare /\ [][NextPrepare]_vars

InitImage == ImgInit /\ ValIdle /\ PrepIdle /\ DlIdle /\ TaskIdle /\ LwIdle /\ TarIdle /\ MetaIdle /\ VpIdle

NextImage == ImgNext

SpecImage == InitImage /\ [][NextImage]_vars

InitCache == DlInit /\ ValIdle /\ PrepIdle /\ ImgIdle /\ TaskIdle /\ LwIdle /\ TarIdle /\ MetaIdle /\ VpIdle

NextCache == DlNext

SpecCache == InitCache /\ [][NextCache]_vars

InitTasks == TaskInit /\ ValIdle /\ PrepIdle /\ ImgIdle /\ DlIdle /\ LwIdle /\ TarIdle /\ MetaIdle /\ VpIdle

NextTasks == TaskNext

SpecTasks == InitTasks /\ [][NextTasks]_vars

InitLockWrite == LwInit /\ ValIdle /\ PrepIdle /\ ImgIdle /\ DlIdle /\ TaskIdle /\ TarIdle /\ MetaIdle /\ VpIdle
NextLockWrite == LwNext
SpecLockWrite == InitLockWrite /\ [][NextLockWrite]_vars

InitArchive == TarInit /\ ValIdle /\ PrepIdle /\ ImgIdle /\ DlIdle /\ TaskIdle /\ LwIdle /\ MetaIdle /\ VpIdle
NextArchive == TarNext
SpecArchive == InitArchive /\ [][NextArchive]_vars

InitMetadata == MetaInit /\ ValIdle /\ PrepIdle /\ ImgIdle /\ DlIdle /\ TaskIdle /\ LwIdle /\ TarIdle /\ VpIdle
NextMetadata == MetaNext
SpecMetadata == InitMetadata /\ [][NextMetadata]_vars

InitVirtualPackages == VpInit /\ ValIdle /\ PrepIdle /\ ImgIdle /\ DlIdle /\ TaskIdle /\ LwIdle /\ TarIdle /\ MetaIdle
NextVirtualPackages == VpNext
SpecVirtualPackages == InitVirtualPackages /\ [][NextVirtualPackages]_vars



-----------------------------------------------------------------------------
(* Claims *)

\* The state of the workspace lockfile when the run started, as the spec's
\* LockMode table names it.
LockfileState ==
    IF ws_lock_before.state = "missing" THEN "Missing"
    ELSE IF validate_lockfile(LoadExistingLock(ws_lock_before, targets),
                              manifest_specs, targets).ok
         THEN "Valid"
         ELSE "Stale"

\* The spec's LockMode table.
LockTable(mode, state) ==
    CASE mode = "Unlock" -> "Resolve"
      [] mode = "Locked" /\ state = "Valid" -> "Reuse"
      [] mode = "Locked" /\ state # "Valid" -> "Fail"
      [] mode = "Auto" /\ state = "Valid" -> "Reuse"
      [] mode = "Auto" /\ state # "Valid" -> "Resolve"

\* The run has passed the lock decision (it did not fail before it).
Decided ==
    /\ pc \notin {"idle", "start", "decide"}
    /\ ~(pc = "failed" /\ error[1] \in {"NoDependencies", "LockUnreadable"})

LockRefused == pc = "failed" /\ error[1] \in {"LockMissing", "LockStale"}

\* The run is past the solve-or-reuse step.
PastResolve ==
    \/ pc \in {"metadata", "download", "write_ws", "write_bundle", "returned", "done"}
    \/ pc = "failed" /\ error[1] \in {"MetadataInvalid", "FetchFailed", "LockWriteFailed"}

RecordKeys(records) == {<<records[i].subdir, records[i].file_name>> : i \in 1..Len(records)}

\* C1: the lock decision follows the LockMode table for every mode and every
\* lockfile state: Fail refuses the run before the solver, Reuse takes the
\* locked records without the solver, Resolve runs the solver.
C1_LockDecisionTable ==
    Decided =>
        LET want == LockTable(lock_mode, LockfileState) IN
        /\ want = "Fail" <=> LockRefused
        /\ want = "Reuse" <=> lock_reused
        /\ want # "Resolve" => solver_calls = 0
        /\ want = "Resolve" =>
               IF pc = "resolve" /\ solver_calls = 0
               THEN solve_index <= Len(targets)
               ELSE solver_calls >= 1

\* Auto mode with a stale lockfile: the run resolved and finished.
C1_Witness ==
    /\ lock_mode = "Auto"
    /\ ws_lock_before.state = "present"
    /\ lock_error # <<>>
    /\ solver_calls >= 1
    /\ pc = "done"

\* C2: in Locked mode with the lockfile missing or rejected by the validator,
\* the run ends in an error (LockMissing, or LockStale with the validator's
\* reason) with the solver never invoked, nothing staged or indexed, neither
\* lockfile written and the workspace lockfile as it was.
C2_LockedRefusalWritesNothing ==
    (/\ pc # "idle"
     /\ lock_mode = "Locked"
     /\ manifest_specs # <<>>
     /\ ws_lock_before.state # "unparseable"
     /\ LockfileState \in {"Missing", "Stale"}) =>
        /\ solver_calls = 0
        /\ staged = {}
        /\ index_runs = 0
        /\ ws_writes = 0
        /\ bundle_lock = MissingFile
        /\ ws_lock = ws_lock_before
        /\ pc \in {"start", "decide", "failed"}
        /\ pc = "failed" =>
               error = IF LockfileState = "Missing"
                       THEN <<"LockMissing", <<>>>>
                       ELSE <<"LockStale",
                              validate_lockfile(LoadExistingLock(ws_lock_before, targets),
                                                manifest_specs, targets).reason>>

\* Locked mode refused a stale lockfile that holds records.
C2_Witness ==
    /\ lock_mode = "Locked"
    /\ pc = "failed"
    /\ error[1] = "LockStale"
    /\ ws_lock_before.records # {}

\* C3, as claimed: when the lock is reused and `lock` reports that it is
\* already up to date, the workspace lockfile is what it was before the run.
C3_ReusedLockfileUnchanged ==
    (pc = "done" /\ message = "already up to date") => ws_lock = ws_lock_before

\* C4: when the validator accepts the existing lockfile in Auto mode, the
\* solver is never invoked and the solved records have the (subdir,
\* file_name) keys of the lockfile's records of the targets and of noarch.
C4_ReuseYieldsLockedRecords ==
    (/\ pc # "idle"
     /\ lock_mode = "Auto"
     /\ manifest_specs # <<>>
     /\ ws_lock_before.state = "present"
     /\ LockfileState = "Valid") =>
        /\ solver_calls = 0
        /\ PastResolve =>
               RecordKeys(solved_records) =
                   {<<r.subdir, r.file_name>> :
                        r \in {q \in ws_lock_before.records :
                                   q.subdir \in Range(targets) \cup {NoArch}}}

\* Auto mode reused a lockfile of at least two records and finished.
C4_Witness ==
    /\ lock_mode = "Auto"
    /\ lock_reused
    /\ pc = "done"
    /\ Len(solved_records) >= 2
    /\ solver_calls = 0


\* C5: if validate_lockfile returns Ok for (R, S, T), then for every platform
\* p in T every manifest spec is matched by a record of R[p] \cup R[noarch],
\* and every dependency string that does not start with "__" of every record
\* reachable from those records is matched by a record of R[p] \cup R[noarch].
C5_ValidatorSound ==
    ValidatorAccepted =>
        \A k \in 1..Len(val_targets) :
            LET p == val_targets[k]
                pool == PlatformRecords(val_records, p)
            IN  /\ \A i \in 1..Len(val_specs) : \E r \in pool : Matches(val_specs[i], r)
                /\ \A q \in Reachable(val_records, val_specs, p) :
                       \A i \in 1..Len(q.depends) :
                           ~IsVirtual(q.depends[i]) => \E r \in pool : Matches(q.depends[i], r)

\* An accepted lockfile whose manifest package has a versioned dependency and
\* a virtual one.
C5_Witness ==
    /\ ValidatorAccepted
    /\ Len(val_targets) = 2
    /\ \E i \in 1..Len(val_records) :
           /\ val_records[i].name = "a"
           /\ val_records[i].version = 2

\* C6: if validate_lockfile returns Ok for (R, S, T), every record of R is
\* reachable by the dependency closure from a manifest spec on some platform
\* of T; so a record list holding an unreachable record, one whose subdir is
\* outside T and noarch included, is rejected.
C6_NoExtraneousRecords ==
    ValidatorAccepted =>
        \A i \in 1..Len(val_records) :
            \E k \in 1..Len(val_targets) :
                val_records[i] \in Reachable(val_records, val_specs, val_targets[k])

\* An accepted lockfile for two distinct platforms that share a noarch record.
C6_Witness ==
    /\ ValidatorAccepted
    /\ Len(val_records) >= 3
    /\ Len(val_targets) = 2
    /\ val_targets[1] # val_targets[2]
    /\ \E i \in 1..Len(val_records) : val_records[i].subdir = NoArch

-----------------------------------------------------------------------------
(* Claims about the installer image *)

\* The image is what the assembler writes for a launcher, a metadata blob
\* that is a JSON object and a non-empty payload.
ImagePristine ==
    /\ img_stage # "idle"
    /\ img_file = Assemble(img_parts.launcher, img_parts.metadata, img_parts.payload)
    /\ serde_json_from_slice(img_parts.metadata) # <<>>
    /\ Len(img_parts.payload) > 0

ReachedStage(stage) ==
    img_stage # "idle" /\ StageIndex(img_stage) >= StageIndex(stage)

\* C7: the image assembled from any launcher, any non-empty metadata JSON
\* and any non-empty payload passes every trailer check of
\* read_embedded_layout, and the parse recovers the three byte ranges it was
\* assembled from: the metadata bytes, the payload's start offset and length
\* (where the cursor is left, and what EmbeddedLayout carries), and the
\* launcher as the bytes before the metadata.
C7_ImageRoundTrip ==
    ImagePristine =>
        /\ read_embedded_layout(img_file).error = "none"
        /\ img_stage \in TrailerStages => img_error = "none"
        /\ metadata_start(img_file) = Len(img_parts.launcher)
        /\ SubSeq(img_file, 1, metadata_start(img_file)) = img_parts.launcher
        /\ metadata_bytes(img_file) = img_parts.metadata
        /\ payload_start(img_file)
             = Len(img_parts.launcher) + Len(img_parts.metadata) + LENGTH_FIELD_SIZE
        /\ payload_len(img_file) = Len(img_parts.payload)
        /\ ReadAt(img_file, payload_start(img_file), payload_len(img_file)) = img_parts.payload
        /\ ReachedStage("MetaParsed") =>
              /\ img_layout = <<[metadata |-> serde_json_from_slice(img_parts.metadata)[1],
                                 payload_len |-> Len(img_parts.payload)]>>
              /\ (img_stage = "MetaParsed" /\ img_error = "none") =>
                    img_pos = Len(img_parts.launcher) + Len(img_parts.metadata)
                                + LENGTH_FIELD_SIZE

C7_Witness ==
    /\ ImagePristine
    /\ img_stage = "MetaParsed"
    /\ img_error = "none"
    /\ Len(img_parts.launcher) > 0
    /\ Len(img_parts.metadata) > 2

\* The first of the faults of C8 that a file has, read off the file's bytes
\* from its end: "none" when it has none of the six, "no_footer" when the
\* payload leaves no room for a metadata length field.
TrailerFault(file) ==
    IF Len(file) < Len(MAGIC_BYTES) + 16 THEN "short"
    ELSE IF SubSeq(file, Len(file) - 9, Len(file)) # MAGIC_BYTES THEN "magic"
    ELSE IF from_le_bytes(SubSeq(file, Len(file) - 17, Len(file) - 10)) = 0
    THEN "payload_zero"
    ELSE IF from_le_bytes(SubSeq(file, Len(file) - 17, Len(file) - 10)) > Len(file) - 18
    THEN "payload_oversize"
    ELSE IF Len(file) - 18 - from_le_bytes(SubSeq(file, Len(file) - 17, Len(file) - 10)) < 8
    THEN "no_footer"
    ELSE IF from_le_bytes(SubSeq(file,
              Len(file) - 25 - from_le_bytes(SubSeq(file, Len(file) - 17, Len(file) - 10)),
              Len(file) - 18 - from_le_bytes(SubSeq(file, Len(file) - 17, Len(file) - 10)))) = 0
    THEN "metadata_zero"
    ELSE IF from_le_bytes(SubSeq(file,
              Len(file) - 25 - from_le_bytes(SubSeq(file, Len(file) - 17, Len(file) - 10)),
              Len(file) - 18 - from_le_bytes(SubSeq(file, Len(file) - 17, Len(file) - 10))))
            > Len(file) - 26 - from_le_bytes(SubSeq(file, Len(file) - 17, Len(file) - 10))
    THEN "metadata_oversize"
    ELSE "none"

\* The error each fault of C8 is reported as.
FaultError ==
    [fault \in {"short", "magic", "payload_zero", "payload_oversize",
                "metadata_zero", "metadata_oversize"} |->
        CASE fault = "short" -> "installer payload is missing or corrupt"
          [] fault = "magic" ->
                "installer payload marker mismatch; the installer may be corrupted"
          [] fault = "payload_zero" -> "installer payload is empty"
          [] fault = "payload_oversize" -> "installer payload length exceeds executable size"
          [] fault = "metadata_zero" -> "installer metadata is empty"
          [] fault = "metadata_oversize" -> "installer metadata length exceeds executable size"]

\* C8: a file that is shorter than len(magic)+16 bytes, or does not end with
\* the magic, or whose payload length field is zero or larger than the number
\* of bytes before it, or whose metadata length field is zero or larger than
\* the number of bytes before it, is rejected by read_embedded_layout with
\* the error of the first of these faults it has; the six errors differ from
\* one another, and nothing is extracted from such a file.
C8_TrailerFaultsRejected ==
    /\ \A f, g \in DOMAIN FaultError : FaultError[f] = FaultError[g] => f = g
    /\ (img_stage # "idle" /\ TrailerFault(img_file) \in DOMAIN FaultError) =>
          /\ read_embedded_layout(img_file).error = FaultError[TrailerFault(img_file)]
          /\ read_embedded_layout(img_file).layout = <<>>
          /\ img_error \in {"none", FaultError[TrailerFault(img_file)]}
          /\ img_stage \in TrailerStages
          /\ img_temp_dir = "none"
          /\ img_tree = <<>>

C8_Witness ==
    /\ img_stage = "MetaLenOK"
    /\ TrailerFault(img_file) = "metadata_oversize"
    /\ img_error = "installer metadata length exceeds executable size"

\* The number of top-level directories the payload unpacked to.
RootDirs == Cardinality({i \in DOMAIN img_tree[1] : img_tree[1][i] = "dir"})

\* C9: load_bundle passes the stages Opened, MagicOK, PayloadLenOK,
\* PayloadBounded, MetaLenOK, MetaBounded, MetaParsed, PayloadExtracted,
\* BundleRootResolved, LockfileRead, RecordsPrepared, Ready in that order
\* and skips none; once a check has failed nothing more happens; the payload
\* is extracted only from an image that passed the trailer and metadata
\* checks; and a payload that unpacked to no or to several top-level
\* directories never reaches LockfileRead.
C9_StagesInOrder ==
    /\ [](img_stage # "idle" =>
            /\ Len(img_history) \in 1..Len(StageOrder)
            /\ img_history = SubSeq(StageOrder, 1, Len(img_history))
            /\ img_stage = img_history[Len(img_history)]
            /\ img_temp_dir # "none" => RunTrailerChecks("Opened", img_file) = "none"
            /\ ReachedStage("PayloadExtracted") => img_temp_dir # "none" /\ img_tree # <<>>
            /\ (img_tree # <<>> /\ RootDirs # 1) => ~ReachedStage("BundleRootResolved"))
    /\ [][img_error # "none" =>
            UNCHANGED <<img_stage, img_history, img_tree, img_lockfile, img_records,
                        img_metadata, img_layout>>]_vars
    /\ [][img_stage' # img_stage =>
            img_error = "none" /\ img_stage' = NextStage(img_stage)]_vars

C9_Witness ==
    /\ img_stage = "Ready"
    /\ img_error = "none"
    /\ Len(img_history) = Len(StageOrder)
    /\ img_temp_dir = "present"

-----------------------------------------------------------------------------
(* Claims about the package cache *)

\* Calls i and j of stage_package fetch the same digest-carrying record one
\* after the other: the i-th found no file at the record's cache path and
\* returned Ok, and no call between them was for that path.
FetchedTwice(i, j) ==
    /\ i < j
    /\ dl_log[i].done /\ dl_log[j].done
    /\ dl_log[i].entry = dl_log[j].entry
    /\ dl_log[i].entry.sha256 # <<>>
    /\ dl_log[i].cache_before = NoFile
    /\ dl_log[i].ok
    /\ \A k \in (i + 1)..(j - 1) : PathOf(dl_log[k].entry) # PathOf(dl_log[i].entry)

\* C10: when a record that carries a digest is fetched twice, the first time
\* with nothing cached for it, the first call downloads it once, the second
\* call finds the cached file valid and downloads nothing, and after either
\* call the file in the cache and the file in the staged channel hold the
\* same bytes, those of the record's digest.
C10_SecondFetchIsCacheHit ==
    \A i, j \in DOMAIN dl_log :
        FetchedTwice(i, j) =>
            /\ ~dl_log[i].cache_ready /\ dl_log[i].downloaded
            /\ dl_log[j].cache_ready /\ ~dl_log[j].downloaded
            /\ dl_log[j].ok
            /\ dl_log[i].cached = dl_log[j].cached
            /\ dl_log[i].staged = dl_log[j].staged
            /\ dl_log[j].staged = dl_log[j].cached
            /\ Sha256(dl_log[j].cached) = dl_log[j].entry.sha256[1]

C10_Witness ==
    \E i, j \in DOMAIN dl_log :
        /\ FetchedTwice(i, j)
        /\ dl_log[i].run # dl_log[j].run
        /\ dl_log[j].ok
        /\ dl_log[j].cached # NoFile

\* Whether the i-th call of stage_package found a file at the record's cache
\* path whose digest is not the record's.
CacheMismatch(i) ==
    /\ dl_log[i].entry.sha256 # <<>>
    /\ dl_log[i].cache_before # NoFile
    /\ Sha256(dl_log[i].cache_before) # dl_log[i].entry.sha256[1]

\* C11: stage_package reuses the cached file exactly when the record has a
\* digest, a file is at its cache path and the file's digest is the
\* record's. On a mismatch the file is deleted and the package downloaded
\* once: the call fails only if that download fails, and when it returns Ok
\* the cache holds bytes of the record's digest. A record without a digest
\* is downloaded by every call, whatever the cache holds. ctx.fetched counts
\* one per call that downloaded.
C11_CacheReuseOnlyOnDigestMatch ==
    /\ \A i \in DOMAIN dl_log :
          /\ dl_log[i].cache_ready <=>
                /\ dl_log[i].entry.sha256 # <<>>
                /\ dl_log[i].cache_before # NoFile
                /\ Sha256(dl_log[i].cache_before) = dl_log[i].entry.sha256[1]
          /\ (dl_log[i].done /\ dl_log[i].ok) => (dl_log[i].downloaded <=> ~dl_log[i].cache_ready)
          /\ (dl_log[i].done /\ CacheMismatch(i)) =>
                IF dl_log[i].ok
                THEN Sha256(dl_log[i].cached) = dl_log[i].entry.sha256[1]
                ELSE dl_log[i].cached = NoFile
          /\ (dl_log[i].done /\ ~dl_log[i].ok) =>
                /\ ~dl_log[i].cache_ready
                /\ (dl_log[i].run = dl_run /\ dl_pc = "returned") =>
                      /\ ~dl_result[1].ok
                      /\ dl_result[1].error \in
                            {"failed to download",
                             "downloaded package failed checksum validation"}
    /\ (dl_pc = "download" /\ CacheMismatch(Len(dl_log))) =>
          cache_files[PathOf(dl_entry[1])] = NoFile
    /\ dl_pc \in {"stream", "returned"} =>
          dl_fetched = Cardinality({i \in DOMAIN dl_log :
                          dl_log[i].run = dl_run /\ dl_log[i].ok /\ dl_log[i].downloaded})

C11_Witness ==
    \E i, j \in DOMAIN dl_log :
        /\ dl_log[i].done /\ dl_log[i].ok /\ CacheMismatch(i) /\ dl_log[i].downloaded
        /\ dl_log[j].done /\ dl_log[j].ok /\ dl_log[j].entry.sha256 = <<>>
        /\ dl_log[j].cache_before = dl_log[j].entry.upstream /\ dl_log[j].downloaded

\* The errors of a task's own download: the GET or its status failed, or the
\* body did not match the record's digest.
OwnDownloadErrors == {"failed to download", "downloaded package failed checksum validation"}

\* Tasks t and u fetch one record that has a digest, in two runs that share
\* the cache.
SameKeyPair(t, u) ==
    /\ t # u
    /\ tasks[t].entry = tasks[u].entry
    /\ tasks[t].entry.sha256 # <<>>
    /\ tasks[t].run # tasks[u].run

\* C12: when two fetches of one (subdir, filename) key run concurrently
\* against the shared cache, neither fails because of the other (a fetch
\* fails only when its own download fails), and once both have returned Ok
\* the file at the final cache path holds bytes that match the record's
\* digest.
C12_SameKeyFetchesIndependent ==
    \A t, u \in Tasks :
        SameKeyPair(t, u) =>
            /\ tasks[t].pc = "failed" => tasks[t].error \in OwnDownloadErrors
            /\ (tasks[t].pc = "done" /\ tasks[u].pc = "done") =>
                   Sha256(FileAt(fs_names, fs_data, cached_path(tasks[t])))
                       = tasks[t].entry.sha256[1]

\* No other task in flight fetches the key of task t.
OnlyFetchOfKey(t) ==
    \A u \in Tasks \ {t} : PathOf(tasks[u].entry) # PathOf(tasks[t].entry)

\* The bytes of a file that is still being written.
Unfinished == {PartialBytes, MixedBytes}

\* C13: a fetch whose (subdir, filename) key no other in-flight task fetches
\* is not disturbed by the others: it fails only when its own download fails,
\* it stops early only when a task of its run failed, once it has returned
\* the final cache file and the staged file both hold the record's verified
\* bytes, and at no time is a partially written file at its final cache path
\* or at its channel path.
C13_DistinctKeysDoNotInterfere ==
    \A t \in Tasks :
        OnlyFetchOfKey(t) =>
            /\ tasks[t].pc = "failed" => tasks[t].error \in OwnDownloadErrors
            /\ tasks[t].pc \in {"cancelled", "dl_write_detached", "cp_copy_detached"} =>
                   \E u \in Tasks \ {t} : tasks[u].run = tasks[t].run /\ tasks[u].pc = "failed"
            /\ FileAt(fs_names, fs_data, cached_path(tasks[t])) \notin Unfinished
            /\ FileAt(fs_names, fs_data, staged_path(tasks[t])) \notin Unfinished
            /\ tasks[t].pc = "done" =>
                   /\ FileAt(fs_names, fs_data, cached_path(tasks[t])) # NoFile
                   /\ FileAt(fs_names, fs_data, staged_path(tasks[t]))
                          = FileAt(fs_names, fs_data, cached_path(tasks[t]))
                   /\ tasks[t].entry.sha256 # <<>> =>
                          Sha256(FileAt(fs_names, fs_data, cached_path(tasks[t])))
                              = tasks[t].entry.sha256[1]
                   /\ tasks[t].downloaded =>
                          FileAt(fs_names, fs_data, cached_path(tasks[t])) = tasks[t].bytes

\* Two tasks of one run have fetched different keys, both by a download.
C13_Witness ==
    \E t, u \in Tasks :
        /\ t # u
        /\ OnlyFetchOfKey(t)
        /\ tasks[t].run = tasks[u].run
        /\ tasks[t].pc = "done" /\ tasks[u].pc = "done"
        /\ tasks[t].downloaded /\ tasks[u].downloaded

\* The call of stage_package logged at i belongs to the current run and
\* returned an error.
FetchFailedAt(i) == dl_log[i].run = dl_run /\ dl_log[i].done /\ ~dl_log[i].ok

\* C14: when the fetch of a record fails, download_and_stage_packages stages
\* no further record and returns that error; the final cache path of the
\* record holds no bytes that mismatch its digest (it holds nothing when the
\* record has a digest, and what it held before otherwise), the indexer is
\* not run, and prepare_environment writes no lockfile.
C14_FetchFailureStopsTheRun ==
    \A i \in 1..Len(dl_log) :
        FetchFailedAt(i) =>
            /\ i = Len(dl_log)
            /\ dl_pc \in {"returned", "failed"}
            /\ dl_result = <<[ok |-> FALSE, error |-> dl_result[1].error]>>
            /\ dl_result[1].error \in OwnDownloadErrors
            /\ ~dl_log[i].downloaded
            /\ dl_log[i].staged = NoFile
            /\ dl_log[i].cached = cache_files[PathOf(dl_log[i].entry)]
            /\ cache_files[PathOf(dl_log[i].entry)]
                   = IF dl_log[i].entry.sha256 # <<>> THEN NoFile ELSE dl_log[i].cache_before
            /\ dl_index_runs = 0
            /\ dl_lockfiles = {}

\* A run whose second fetch failed on a checksum has returned to
\* prepare_environment, which has returned the error.
C14_Witness ==
    /\ dl_pc = "failed"
    /\ Len(dl_log) >= 2
    /\ FetchFailedAt(Len(dl_log))
    /\ dl_log[Len(dl_log) - 1].run = dl_run
    /\ dl_result[1].error = "downloaded package failed checksum validation"

\* The (subdir, file_name) keys of the solved records.
SolvedKeys == {<<solved_records[i].subdir, solved_records[i].file_name>> :
                  i \in 1..Len(solved_records)}

\* The run stopped on the write of one of the two lockfiles.
WriteFailed == pc = "failed" /\ error[1] = "LockWriteFailed"

\* What holds of the pipeline's products at every moment.
PipelineProducts ==
    /\ pc \in {"download", "write_ws", "write_bundle", "returned"} =>
           \A i \in 1..Len(featured) :
               \E j \in 1..Len(solved_records) : solved_records[j].name = featured[i]
    /\ (staged # {} \/ index_runs > 0) =>
           /\ pc \in {"write_ws", "write_bundle", "returned", "done"} \/ WriteFailed
           /\ staged = SolvedKeys
           /\ index_runs = 1
    /\ (pc \in {"write_ws", "write_bundle", "returned", "done"} \/ WriteFailed) =>
           staged = SolvedKeys /\ index_runs = 1
    /\ ws_writes > 0 =>
           /\ pc \in {"write_bundle", "returned", "done"} \/ WriteFailed
           /\ ws_writes = 1
           /\ ws_lock = build_lockfile(solved_records)
    /\ pc \in {"write_bundle", "returned", "done"} => ws_writes = 1
    /\ bundle_lock # MissingFile =>
           /\ pc \in {"returned", "done"}
           /\ bundle_lock = ws_lock
    /\ pc \in {"returned", "done"} => bundle_lock = build_lockfile(solved_records)

\* What a step of the pipeline may do.
PipelineStep ==
    /\ solved_records' # solved_records => pc = "resolve" /\ pc' = "metadata"
    /\ pc = "metadata" => pc' \in {"metadata", "download", "failed"}
    /\ pc = "download" => pc' \in {"download", "write_ws", "failed"}
    /\ (staged' # staged \/ index_runs' # index_runs) => pc = "download" /\ pc' = "write_ws"
    /\ pc = "write_ws" => pc' \in {"write_ws", "write_bundle", "failed"}
    /\ ws_writes' # ws_writes => pc = "write_ws" /\ pc' = "write_bundle"
    /\ ws_lock' # ws_lock => pc = "write_ws" /\ pc' \in {"write_bundle", "failed"}
    /\ pc = "write_bundle" => pc' \in {"write_bundle", "returned", "failed"}
    /\ bundle_lock' # bundle_lock => pc = "write_bundle" /\ pc' = "returned"

\* C15: prepare_environment solves (or reuses), then derives the bundle
\* metadata, then fetches, stages and indexes, then writes the workspace
\* lockfile, then the lockfile of the bundle, one after the other: the
\* workspace lockfile is written once, after every solved record was staged
\* and the channel indexed, and the two lockfiles are built from the same
\* records.
C15_PipelineOrder == []PipelineProducts /\ [][PipelineStep]_vars

\* Both lockfiles are written, after a solve of at least two records.
C15_Witness ==
    /\ pc = "returned"
    /\ ~lock_reused
    /\ Len(solved_records) >= 2
    /\ bundle_lock = ws_lock
    /\ ws_lock # ws_lock_before

\* A featured package of the manifest is not the name of any solved record.
FeaturedMissing ==
    \E i \in 1..Len(featured) :
        \A j \in 1..Len(solved_records) : solved_records[j].name # featured[i]

\* Nothing was staged, indexed or written by this run.
NothingProduced ==
    /\ staged = {}
    /\ index_runs = 0
    /\ ws_writes = 0
    /\ ws_lock = ws_lock_before
    /\ bundle_lock = MissingFile

\* C16: when a featured package of the manifest metadata is absent from the
\* solved records, prepare_environment returns the metadata error and never
\* gets to the download: no package is staged, the indexer is not run and
\* neither lockfile is written.
C16_FeaturedMissingAbortsBeforeStaging ==
    /\ (pc = "failed" /\ error[1] = "MetadataInvalid") =>
           FeaturedMissing /\ NothingProduced /\ ~staging_dir
    /\ (FeaturedMissing /\ pc \notin {"start", "decide", "resolve", "metadata"}) =>
           pc = "failed" /\ NothingProduced

\* The solve returned records, none of them the featured package, and the
\* pipeline has stopped on the metadata.
C16_Witness ==
    /\ pc = "failed"
    /\ error[1] = "MetadataInvalid"
    /\ ~lock_reused
    /\ Len(solved_records) >= 1

\* C17: whenever the pipeline is stopped or fails, and at every moment of the
\* write, the file at the workspace lockfile path is either what it was
\* before the run or the whole new lockfile, never an empty or partly
\* written one.
C17_LockfilePreOrPostState ==
    lw_pc # "off" => lw_file \in {lw_before, build_lockfile(lw_records)}

\* C18: archives built from the same staged channel, platform, launcher and
\* metadata are identical, whatever order read_dir yields the entries of the
\* channel directory and of its subdirs in.
C18_ArchiveIsDeterministic ==
    \A i, j \in 1..Len(tar_archives) : tar_archives[i] = tar_archives[j]

\* The packages the environment lists under the current platform and under
\* noarch.
SelectedPackages(lockfile) ==
    UNION {Range(lockfile.by_platform[i][2]) :
              i \in {k \in 1..Len(lockfile.by_platform) :
                        lockfile.by_platform[k][1] \in {CurrentPlatform, NoArch}}}

ListsCurrentPlatform(lockfile) ==
    \E i \in 1..Len(lockfile.by_platform) : lockfile.by_platform[i][1] = CurrentPlatform

\* C19: collect_records returns exactly the binary packages the environment
\* lists under the current platform and under noarch, each as a record with
\* a file URL of <bundle>/<subdir>/<file> and the channel "local"; it fails
\* when the environment has no entry for the current platform, when one of
\* those packages is a source package, or when the file of one of them is
\* not in the bundle, and only then.
C19_CollectRecords ==
    (img_lockfile # <<>> /\ resolve_environment(img_lockfile[1]) = "none") =>
        /\ img_stage \in {"RecordsPrepared", "Ready"} =>
               /\ ListsCurrentPlatform(img_lockfile[1])
               /\ \A p \in SelectedPackages(img_lockfile[1]) : p.kind = "binary" /\ p.present
               /\ Len(img_records) = Cardinality(SelectedPackages(img_lockfile[1]))
               /\ \A p \in SelectedPackages(img_lockfile[1]) :
                      \E k \in 1..Len(img_records) :
                          /\ img_records[k].name = p.name
                          /\ img_records[k].subdir = p.subdir
                          /\ img_records[k].file_name = p.file_name
               /\ \A k \in 1..Len(img_records) :
                      /\ img_records[k].channel = "local"
                      /\ img_records[k].url
                             = <<"file", img_records[k].subdir, img_records[k].file_name>>
                      /\ img_records[k].subdir \in {CurrentPlatform, NoArch}
        /\ (img_stage = "LockfileRead" /\ img_error # "none") =>
               /\ img_records = <<>>
               /\ \/ /\ img_error = "installer component is not supported on this system"
                     /\ \E p \in SelectedPackages(img_lockfile[1]) : p.kind = "source"
                  \/ /\ img_error = "installer component missing from bundle"
                     /\ \E p \in SelectedPackages(img_lockfile[1]) :
                            p.kind = "binary" /\ ~p.present
                  \/ /\ img_error = "the installer bundle does not include components for platform"
                     /\ ~ListsCurrentPlatform(img_lockfile[1])

\* collect_records has returned the records of the current platform and of
\* noarch, leaving out a platform the environment also lists.
C19_Witness ==
    /\ img_stage = "RecordsPrepared"
    /\ Len(img_records) >= 2
    /\ \E i \in 1..Len(img_lockfile[1].by_platform) :
           img_lockfile[1].by_platform[i][1] \notin {CurrentPlatform, NoArch}

\* The normalized names of the featured packages of the configuration, and
\* the first position at which a name is featured.
FeaturedNames ==
    {PackageName_from_str(meta_config.featured_packages[i])[1].normalized :
        i \in 1..Len(meta_config.featured_packages)}

FirstSeen(name) ==
    CHOOSE i \in 1..Len(meta_config.featured_packages) :
        /\ PackageName_from_str(meta_config.featured_packages[i])[1].normalized = name
        /\ \A j \in 1..(i - 1) :
               PackageName_from_str(meta_config.featured_packages[j])[1].normalized # name

\* A featured name that does not parse, or that no solved record has.
FeaturedRejected ==
    \E i \in 1..Len(meta_config.featured_packages) :
        \/ PackageName_from_str(meta_config.featured_packages[i]) = <<>>
        \/ PackageName_from_str(meta_config.featured_packages[i])[1].normalized \notin meta_names

\* C20: from_config fails whenever a featured package name does not parse as
\* a package name or is not the name of a solved record (it fails otherwise
\* only on an unreadable post-install script); when it succeeds, the featured
\* list holds each distinct featured name once, in the order the names were
\* first seen, and the display name is the configured one, or the
\* environment name when none is configured.
C20_FromConfig ==
    meta_result # <<>> =>
        /\ meta_result[1].ok <=>
               (~FeaturedRejected /\ meta_config.post_install_script # "unreadable")
        /\ FeaturedRejected =>
               meta_result[1].error \in {"is not a valid package name",
                                         "was not found in the resolved environment"}
        /\ meta_result[1].ok =>
               /\ Range(meta_result[1].featured_packages) = FeaturedNames
               /\ \A k, l \in 1..Len(meta_result[1].featured_packages) :
                      k < l => FirstSeen(meta_result[1].featured_packages[k])
                                   < FirstSeen(meta_result[1].featured_packages[l])
               /\ meta_result[1].display_name =
                      IF meta_config.display_name = <<>> THEN meta_env
                      ELSE meta_config.display_name[1]

\* from_config succeeded on a list that features one package twice, under
\* two spellings, and another one, with no display name configured.
C20_Witness ==
    /\ meta_result # <<>>
    /\ meta_result[1].ok
    /\ meta_config.display_name = <<>>
    /\ Len(meta_config.featured_packages) = 3
    /\ meta_result[1].featured_packages = <<"a", "c">>
    /\ meta_config.featured_packages[2] = "c"

-----------------------------------------------------------------------------
(* C21: the lifetime of the staging directory *)

\* The staging directory exists while prepare_environment runs and while its
\* caller holds the preparation, and is gone once the run has ended.
StagingDirLifetime ==
    /\ pc \in {"decide", "resolve", "metadata", "download", "write_ws", "write_bundle",
               "returned"} => staging_dir
    /\ pc \in {"failed", "done"} => ~staging_dir
    /\ pc = "failed" =>
           error[1] \in {"NoDependencies", "LockUnreadable", "LockMissing", "LockStale",
                         "SolveFailed", "MetadataInvalid", "FetchFailed", "LockWriteFailed"}

\* The staging directory is removed only by the end of the run: an error
\* return, or the caller dropping the preparation.
StagingDirStep ==
    /\ (staging_dir /\ ~staging_dir') => pc' \in {"failed", "done"}
    /\ (~staging_dir /\ staging_dir') => pc = "start"

\* C21: the staging directory created at the start of prepare_environment
\* exists until the returned preparation is dropped, and every error return
\* (lock, solve, metadata, fetch, lockfile write) removes it: no staging
\* directory is left once the run has ended.
C21_StagingDirRemoved == []StagingDirLifetime /\ [][StagingDirStep]_vars

\* The write of the workspace lockfile failed after the packages were staged,
\* and the staging directory is gone.
C21_Witness ==
    /\ pc = "failed"
    /\ error[1] = "LockWriteFailed"
    /\ staged # {}
    /\ ~staging_dir

-----------------------------------------------------------------------------
(* C22: the per-platform virtual-package overrides *)

VpKeys == {"linux", "osx", "win", "libc", "cuda"}

\* The override of a key as an optional version string.
OverrideOf(config, key) ==
    CASE key = "linux" -> config.linux
      [] key = "osx" -> config.osx
      [] key = "win" -> config.win
      [] key = "cuda" -> config.cuda
      [] key = "libc" -> IF config.libc = <<>> THEN <<>> ELSE <<config.libc[1].version>>

\* The names a key's virtual package can have.
NamesOf(key) ==
    CASE key = "linux" -> {"__linux"}
      [] key = "osx" -> {"__osx"}
      [] key = "win" -> {"__win"}
      [] key = "cuda" -> {"__cuda"}
      [] key = "libc" -> {"__glibc", "__musl"}

\* The packages of a key among the packages handed to the solver.
Handed(packages, key) == {p \in packages : p.name \in NamesOf(key)}

\* The packages of the platform when nothing is overridden.
PlatformDefaults == detect_virtual_packages_for_platform(vp_platform, <<>>).packages

\* An empty-string value of a key: the detection succeeds and hands the
\* solver no package of that key.
EmptyClears ==
    (vp_result # <<>> /\ vp_overrides # <<>>) =>
        \A key \in VpKeys :
            OverrideOf(vp_overrides[1], key) = <<"">> =>
                vp_result[1].ok /\ Handed(vp_result[1].packages, key) = {}

\* A version as the value of a key: when the detection succeeds, the package
\* of that key has that version.
NonEmptyReplaces ==
    (vp_result # <<>> /\ vp_overrides # <<>> /\ vp_result[1].ok) =>
        \A key \in VpKeys :
            \A value \in ValidVersions :
                OverrideOf(vp_overrides[1], key) = <<value>> =>
                    /\ Handed(vp_result[1].packages, key) # {}
                    /\ \A p \in Handed(vp_result[1].packages, key) : p.version = value

\* A key that is absent: when the detection succeeds, the packages of that
\* key are the platform's defaults.
AbsentKeepsDefault ==
    (vp_result # <<>> /\ vp_result[1].ok) =>
        \A key \in VpKeys :
            (vp_overrides = <<>> \/ OverrideOf(vp_overrides[1], key) = <<>>) =>
                Handed(vp_result[1].packages, key) = Handed(PlatformDefaults, key)

\* C22, as claimed: for each of the override keys linux, osx, win, libc and
\* cuda, an empty string clears the virtual package from the set handed to
\* the solver, a non-empty value replaces its version, and an absent key
\* leaves the platform default.
C22_OverridesClearReplaceDefault == EmptyClears /\ NonEmptyReplaces /\ AbsentKeepsDefault

\* What the code does with an empty string: cuda is cleared; __win stays, at
\* version 0; linux, osx and libc fail to parse and the detection returns the
\* error.
EmptyAsCoded ==
    (vp_result # <<>> /\ vp_overrides # <<>>) =>
        /\ (vp_result[1].ok /\ vp_overrides[1].cuda = <<"">>) =>
               Handed(vp_result[1].packages, "cuda") = {}
        /\ (vp_result[1].ok /\ vp_overrides[1].win = <<"">>) =>
               Handed(vp_result[1].packages, "win") = {VPkg("__win", "0")}
        /\ (\E key \in {"linux", "osx", "libc"} :
                OverrideOf(vp_overrides[1], key) = <<"">>) => ~vp_result[1].ok

-----------------------------------------------------------------------------
(* C23: the validator's view of a platform is the set R[P] \cup R[noarch] *)

\* Two distinct records of R[P] \cup R[noarch] have the same package name.
SharedName(R, p) ==
    \E r, q \in PlatformRecords(R, p) : r # q /\ r.name = q.name

\* C23, as claimed: for every target platform P, noarch included, the
\* validator reports "no packages" only when R[P] \cup R[noarch] is empty and
\* "multiple entries" only when two distinct records of that set share a
\* name, and it accepts no lockfile in which a target's set is empty or holds
\* such a pair: no record is counted twice.
C23_PlatformSetCheckedOnce ==
    val_result # <<>> =>
        /\ (~val_result[1].ok /\ val_result[1].reason[1] = "no packages for platform") =>
               PlatformRecords(val_records, val_result[1].reason[2]) = {}
        /\ (~val_result[1].ok /\ val_result[1].reason[1] = "multiple entries") =>
               SharedName(val_records, val_result[1].reason[3])
        /\ val_result[1].ok =>
               \A i \in 1..Len(val_targets) :
                   /\ PlatformRecords(val_records, val_targets[i]) # {}
                   /\ ~SharedName(val_records, val_targets[i])

\* The same, for the target platforms other than noarch.
PlatformSetCheckedOnceOffNoarch ==
    val_result # <<>> =>
        /\ (~val_result[1].ok /\ val_result[1].reason[1] = "no packages for platform") =>
               PlatformRecords(val_records, val_result[1].reason[2]) = {}
        /\ (/\ ~val_result[1].ok
            /\ val_result[1].reason[1] = "multiple entries"
            /\ val_result[1].reason[3] # NoArch) =>
               SharedName(val_records, val_result[1].reason[3])
        /\ val_result[1].ok =>
               \A i \in 1..Len(val_targets) :
                   /\ PlatformRecords(val_records, val_targets[i]) # {}
                   /\ ~SharedName(val_records, val_targets[i])

-----------------------------------------------------------------------------
(* C24: the aggregation of the per-platform solve results *)

RecordKey(record) == <<record.subdir, record.file_name>>

\* The indices of a list whose key occurs at no earlier index.
FirstIndices(list) ==
    {i \in 1..Len(list) : \A j \in 1..(i - 1) : RecordKey(list[j]) # RecordKey(list[i])}

\* The records of a list at their first occurrence, in the order of the list.
FirstOccurrences(list) ==
    [k \in 1..Cardinality(FirstIndices(list)) |->
        list[CHOOSE i \in FirstIndices(list) :
                 Cardinality({j \in FirstIndices(list) : j <= i}) = k]]

\* No key is twice in the combined list, and the solved records of a run
\* that solved are the combined list.
AggregatedOnce ==
    /\ \A i, j \in 1..Len(combined) :
           RecordKey(combined[i]) = RecordKey(combined[j]) => i = j
    /\ (~lock_reused /\ pc \in {"metadata", "download", "write_ws", "write_bundle",
                                "returned", "done"}) => solved_records = combined

\* A solve that succeeds leaves the combined list as the first occurrences of
\* the list so far followed by the platform's result; nothing else changes it.
AggregationStep ==
    /\ combined' # combined => pc = "resolve" /\ solver_calls' = solver_calls + 1
    /\ (pc = "resolve" /\ solver_calls' = solver_calls + 1 /\ pc' # "failed") =>
           \E records \in solve_environment(targets[solve_index], manifest_specs) :
               combined' = FirstOccurrences(combined \o records)

\* C24: the per-platform results are aggregated, in target-platform order,
\* into one list that holds every (subdir, file_name) key of every result
\* exactly once, at the place of its first occurrence in the concatenation of
\* the results.
C24_AggregateFirstSeen == []AggregatedOnce /\ [][AggregationStep]_vars

\* Two platforms were solved, both results holding a noarch record, and the
\* combined list holds records of both platforms.
C24_Witness ==
    /\ pc = "metadata"
    /\ ~lock_reused
    /\ Len(targets) = 2
    /\ \E i, j, k \in 1..Len(combined) :
           /\ combined[i].subdir = "linux-64"
           /\ combined[j].subdir = "osx-64"
           /\ combined[k].subdir = NoArch

-----------------------------------------------------------------------------
(* C25: the platform solves, one after the other *)

\* The run produced nothing past the solve: no metadata was derived (the run
\* never left the solve), nothing was staged or indexed, no lockfile written.
NothingAfterSolve ==
    /\ solved_records = <<>>
    /\ staged = {}
    /\ index_runs = 0
    /\ ws_writes = 0
    /\ ws_lock = ws_lock_before
    /\ bundle_lock = MissingFile

\* The invocations so far are those of the first target platforms, in the
\* order of the targets, each with the locked records of its platform and of
\* noarch; only the last can have failed, and then the run has failed with
\* it and has produced nothing.
SolvesInOrder ==
    /\ Len(solve_log) = solver_calls
    /\ Len(solve_log) <= Len(targets)
    /\ lock_reused => solve_log = <<>>
    /\ \A i \in 1..Len(solve_log) :
           /\ solve_log[i].platform = targets[i]
           /\ Range(solve_log[i].locked) =
                  {r \in Range(existing_lock_records) : r.subdir \in {targets[i], NoArch}}
           /\ i < Len(solve_log) => solve_log[i].ok
           /\ ~solve_log[i].ok =>
                  /\ pc = "failed"
                  /\ error = <<"SolveFailed", targets[i]>>
                  /\ NothingAfterSolve
    /\ (pc = "failed" /\ error[1] = "SolveFailed") =>
           /\ solve_log # <<>>
           /\ ~solve_log[Len(solve_log)].ok
    /\ (~lock_reused /\ pc \in {"metadata", "download", "write_ws", "write_bundle",
                                "returned", "done"}) =>
           /\ Len(solve_log) = Len(targets)
           /\ \A i \in 1..Len(solve_log) : solve_log[i].ok

\* One invocation is added at a time, the earlier ones stay as they were, and
\* a failed run takes no further step.
SolveStep ==
    /\ solve_log' # solve_log =>
           /\ pc = "resolve"
           /\ Len(solve_log') = Len(solve_log) + 1
           /\ SubSeq(solve_log', 1, Len(solve_log)) = solve_log
    /\ pc = "failed" => pc' = "failed"

\* C25: the platforms are solved one at a time in target-platform order, each
\* with the locked records of that platform and of noarch as pins; when a
\* solve fails no later platform is solved and prepare_environment fails
\* without deriving metadata, downloading a package or writing a lockfile.
C25_SolvesInOrderStopAtFailure == []SolvesInOrder /\ [][SolveStep]_vars

\* The solve of the second platform failed after the first succeeded, with
\* locked records handed to the solver as pins.
C25_Witness ==
    /\ pc = "failed"
    /\ error[1] = "SolveFailed"
    /\ Len(solve_log) = 2
    /\ solve_log[1].ok
    /\ solve_log[1].locked # <<>>
    /\ \E i \in 1..Len(solve_log[2].locked) : solve_log[2].locked[i].subdir = NoArch

-----------------------------------------------------------------------------
(* C26: the directories of the staged channel and the run of the indexer *)

\* The calls of stage_package of the current run.
RunCalls == {i \in 1..Len(dl_log) : dl_log[i].run = dl_run}

\* Every entry of the current run went through stage_package, which returned
\* Ok with the entry's file in the channel.
EveryEntryStaged ==
    /\ dl_pending = {}
    /\ Cardinality({dl_log[i].entry : i \in RunCalls}) = dl_total
    /\ \A i \in RunCalls :
           /\ dl_log[i].done /\ dl_log[i].ok
           /\ channel_files[PathOf(dl_log[i].entry)] # NoFile

\* Once download_and_stage_packages has returned Ok the channel has the
\* directory of every entry's subdir and the noarch directory, and the indexer
\* has run once; before that, and in a run that failed, it has not run.
ChannelAfterSuccess ==
    /\ dl_index_runs \in {0, 1}
    /\ (dl_pc \in {"returned", "prepared"} /\ dl_result # <<>> /\ dl_result[1].ok) =>
           /\ EveryEntryStaged
           /\ channel_dirs = {dl_log[i].entry.subdir : i \in RunCalls} \cup {NoArch}
           /\ dl_index_runs = 1
    /\ dl_index_runs = 1 => (dl_result # <<>> /\ dl_result[1].ok)

\* The indexer runs when every entry's file is in the channel and the noarch
\* directory exists.
IndexStep ==
    dl_index_runs' > dl_index_runs => (EveryEntryStaged /\ NoArch \in channel_dirs')

\* C26: after download_and_stage_packages succeeds the staged channel has a
\* directory for every distinct subdir of the records and a noarch directory,
\* also for an empty record set and for one without noarch records; the
\* indexer is run exactly once, after every record's file is in the channel.
C26_ChannelDirsAndIndex == []ChannelAfterSuccess /\ [][IndexStep]_vars

\* A run whose only record is of linux-64 has succeeded.
C26_Witness ==
    /\ dl_pc = "returned"
    /\ dl_result[1].ok
    /\ dl_total = 1
    /\ channel_dirs = {"linux-64", NoArch}
    /\ dl_index_runs = 1

\* A run over no record at all has succeeded.
C26_WitnessEmpty ==
    /\ dl_pc = "returned"
    /\ dl_result[1].ok
    /\ dl_total = 0
    /\ channel_dirs = {NoArch}
    /\ dl_index_runs = 1

-----------------------------------------------------------------------------
(* C27: the workspace lockfile after a run over a subset of the platforms *)

\* The subdirs a run over the targets can lock.
TargetSubdirs == Range(targets) \cup {NoArch}

\* C27: after a successful prepare_environment over the targets T the
\* workspace lockfile holds the records of that run and nothing else, all of
\* them of a subdir in T \cup {noarch}: what the file held for other
\* platforms is gone, when the lock was reused as when it was solved anew.
C27_WorkspaceLockOnlyTargets ==
    pc \in {"write_bundle", "returned", "done"} =>
        /\ ws_lock.state = "present"
        /\ ws_lock.records = Range(solved_records)
        /\ \A r \in ws_lock.records : r.subdir \in TargetSubdirs
        /\ \A r \in ws_lock_before.records :
               r.subdir \notin TargetSubdirs => r \notin ws_lock.records

\* A run that reused the lock has finished, and a record the file held for a
\* platform outside the targets is no longer in it.
C27_Witness ==
    /\ pc = "done"
    /\ lock_reused
    /\ \E r \in ws_lock_before.records : r.subdir \notin TargetSubdirs /\ r \notin ws_lock.records

\* The same after a run that solved anew.
C27_WitnessResolved ==
    /\ pc = "done"
    /\ ~lock_reused
    /\ \E r \in ws_lock_before.records : r.subdir \notin TargetSubdirs /\ r \notin ws_lock.records

-----------------------------------------------------------------------------
(* C28: the platform entries of the lockfile of the bundle *)

\* C28, as claimed: the lockfile written into the bundle by a successful
\* prepare_environment has a platform entry for every target platform, so the
\* platform-presence check of the launcher's collect_records passes on each
\* target, also when every record solved for a target is a noarch record.
C28_BundleLockHasTargetEntries ==
    pc \in {"returned", "done"} =>
        \A i \in 1..Len(targets) : LockHasPlatform(bundle_lock, targets[i])

\* The same for the targets that have a record of their own subdir.
BundleLockHasEntriesOfOwnRecords ==
    pc \in {"returned", "done"} =>
        \A i \in 1..Len(targets) :
            (\E j \in 1..Len(solved_records) : solved_records[j].subdir = targets[i]) =>
                LockHasPlatform(bundle_lock, targets[i])

-----------------------------------------------------------------------------
(* C29: a workspace lockfile that cannot be loaded *)

\* C29: when the file at the workspace lockfile path cannot be loaded,
\* prepare_environment fails in every lock mode, Unlock and Auto included,
\* before the validator and the solver are invoked; neither lockfile is
\* written and the file stays as it was.
C29_UnreadableLockFailsEveryMode ==
    (pc # "idle" /\ ws_lock_before.state = "unparseable") =>
        /\ pc \in {"start", "failed"}
        /\ pc = "failed" =>
               error = IF manifest_specs = <<>>
                       THEN <<"NoDependencies", <<>>>>
                       ELSE <<"LockUnreadable", <<>>>>
        /\ lock_error = <<>>
        /\ ~lock_reused
        /\ solver_calls = 0
        /\ solve_log = <<>>
        /\ solved_records = <<>>
        /\ staged = {}
        /\ index_runs = 0
        /\ ws_writes = 0
        /\ bundle_lock = MissingFile
        /\ ws_lock = ws_lock_before
        /\ ~(pc = "failed" /\ staging_dir)

\* Under Unlock, with dependencies in the manifest, the run has failed on the
\* lockfile it could not load.
C29_Witness ==
    /\ lock_mode = "Unlock"
    /\ manifest_specs # <<>>
    /\ ws_lock_before.state = "unparseable"
    /\ pc = "failed"
    /\ error[1] = "LockUnreadable"

-----------------------------------------------------------------------------
(* C30: the offsets read_embedded_layout computes *)

\* The reads of a successful read_embedded_layout, each as <<offset, length>>:
\* the marker, the two length fields and the metadata.
LayoutReads(file) ==
    { <<magic_start(file), Len(MAGIC_BYTES)>>,
      <<payload_len_pos(file), LENGTH_FIELD_SIZE>>,
      <<metadata_len_pos(file), LENGTH_FIELD_SIZE>>,
      <<metadata_start(file), metadata_len(file)>> }

\* The results of the unsigned subtractions of read_embedded_layout.
LayoutDifferences(file) ==
    { magic_start(file), payload_len_pos(file), payload_start(file),
      metadata_len_pos(file), metadata_start(file) }

\* C30: when read_embedded_layout succeeds on a file of length L, both
\* lengths are at least 1, 0 <= metadata_start, metadata_start + metadata_len
\* + 8 = payload_start and payload_start + payload_len + 8 + len(magic) = L;
\* no subtraction went below zero, every read lies in [0, L), the metadata
\* and the payload do not overlap, and the cursor is left at payload_start,
\* so the extraction reads within the payload_len bytes of the payload and
\* never the length fields or the magic.
C30_LayoutOffsets ==
    (img_layout # <<>>) =>
        /\ payload_len(img_file) >= 1
        /\ metadata_len(img_file) >= 1
        /\ payload_len(img_file) < U64Huge /\ metadata_len(img_file) < U64Huge
        /\ 0 <= metadata_start(img_file)
        /\ metadata_start(img_file) + metadata_len(img_file) + LENGTH_FIELD_SIZE
               = payload_start(img_file)
        /\ payload_start(img_file) + payload_len(img_file) + LENGTH_FIELD_SIZE
               + Len(MAGIC_BYTES) = Len(img_file)
        /\ \A d \in LayoutDifferences(img_file) : d >= 0
        /\ \A read \in LayoutReads(img_file) :
               0 <= read[1] /\ read[1] + read[2] <= Len(img_file)
        /\ metadata_start(img_file) + metadata_len(img_file) <= payload_start(img_file)
        /\ img_layout[1].payload_len = payload_len(img_file)
        /\ img_stage = "MetaParsed" /\ img_error = "none" => img_pos = payload_start(img_file)
        /\ payload_start(img_file) <= img_pos
        /\ img_pos <= payload_start(img_file) + img_layout[1].payload_len
        /\ img_pos <= payload_len_pos(img_file)
        /\ (img_stage # "MetaParsed" /\ img_error = "none") =>
               img_pos = payload_start(img_file) + payload_len(img_file)

\* The payload of an image with a launcher in front was extracted: the cursor
\* went from payload_start to the payload's length field.
C30_Witness ==
    /\ img_layout # <<>>
    /\ img_stage = "PayloadExtracted"
    /\ img_error = "none"
    /\ metadata_start(img_file) >= 1
    /\ metadata_len(img_file) >= 2
    /\ img_pos = payload_len_pos(img_file)

====
